---- MODULE Spec2Model ----
(***************************************************************************)
(* vite-plugin-duplicate-packages: the resolution interceptor (resolveId), *)
(* the doppelganger registry (doppelgangerMap), the duplicate analyzer     *)
(* (analyzeForDuplicates), the build gate (generateBundle), the dev        *)
(* endpoint (/__check-duplicates) and the buildEnd report.                 *)
(*                                                                         *)
(* A string is modelled as a sequence of tokens: every path separator is a *)
(* token of its own, every directory or file name is one token, so that    *)
(* String.replace, String.includes, path.normalize and template literals   *)
(* are computed on the text as the code computes them.                     *)
(* Manifest fields are absent (Undef) or ordinary npm names / versions     *)
(* (no "@" inside a name or version, no field holding the text             *)
(* "undefined").                                                           *)
(***************************************************************************)
EXTENDS Integers, Sequences, FiniteSets, TLC

VARIABLES
  platform,           \* the operating system's path flavour
  command,            \* the host's command: "build" or "serve"
  config,             \* the options the plugin was constructed with
  doppelgangerMap,    \* packageId -> [resolveToPath, paths]
  resolvedModuleIds,  \* the module ids tracked by resolveId
  pending,            \* resolveId calls waiting at their await, oldest first, each
                      \* with fresh: the registry was empty when it was made (history)
  last,               \* the most recent hook that returned, and what it produced;
                      \* for resolveId with the history fields overtook (an older
                      \* call was still waiting), fresh (as in pending) and repeat
                      \* (the same id had been resolved before)
  firstRoot,          \* history: packageId -> root of its first resolution
  firstFinal,         \* history: resolved id -> final path of its first resolution
  redirected,         \* history: <<packageId, root>> pairs that were redirected
  other               \* a second plugin instance made by another call of
                      \* duplicatePackagesPlugin: its registry, its tracked ids,
                      \* the resolutions it was handed (history) and what its
                      \* last resolveId returned

vars == <<platform, command, config, doppelgangerMap, resolvedModuleIds,
          pending, last, firstRoot, firstFinal, redirected, other>>

\* ---------------------------------------------------------------- bounds
\* number of resolveId calls that can be waiting for the host at one time
MaxPending == 2
\* number of module ids handed to one analysis
MaxModules == 3
\* the frames of getPackageJsonForPath the engine's call stack has room for
MaxStack == 4

\* ---------------------------------------------------------------- values
\* JavaScript undefined (an absent manifest field, an absent importer)
Undef == "<undefined>"
\* null as a resolution result: no module id is the empty string
NoPath == <<>>
\* the NUL character that starts a virtual module specifier
NUL == "\\0"

Platforms == {"posix", "win32"}

\* path.sep
sep(p) == IF p = "win32" THEN "\\" ELSE "/"

\* the drive prefix of an absolute path
drive(p) == IF p = "win32" THEN <<"C:">> ELSE <<>>

RECURSIVE JoinSegs(_, _)
JoinSegs(s, segs) ==
  IF segs = <<>> THEN <<>> ELSE <<s, Head(segs)>> \o JoinSegs(s, Tail(segs))

\* a module id as the host hands it out: forward slashes on every platform
HostId(p, segs) == drive(p) \o JoinSegs("/", segs)

\* a directory as the platform's file system calls spell it
NativeDir(p, segs) == drive(p) \o JoinSegs(sep(p), segs)

Range(s) == {s[i] : i \in 1..Len(s)}

\* ------------------------------------------------------------ file system
nm == "node_modules"

DirApp  == <<"repo", "app">>
DirY1   == <<"repo", nm, "dep1", nm, "pkgY">>
DirY1e  == <<"repo", nm, "dep1", nm, "pkgY", "esm">>
DirY2   == <<"repo", nm, "dep2", nm, "pkgY">>
DirY3   == <<"repo", nm, "pkgY">>
DirX1   == <<"repo", "a", nm, "pkgX">>
DirX2   == <<"repo", nm, "pkgX">>
DirPriv == <<"repo", nm, "priv">>
DirBad  == <<"tmp", nm, "broken">>
DirY3v  == <<"repo", nm, "pkgY", "vendor">>
DirLock == <<"tmp", nm, "locked">>

\* the package.json files on disk: content is "object" (parses to an object
\* with the fields given), "falsy" (parses to null) or "unparseable"
Manifests ==
  (DirApp  :> [content |-> "object", name |-> "app",  version |-> "1.0.0"]) @@
  (DirY1   :> [content |-> "object", name |-> "pkgY", version |-> "1.0.0"]) @@
  (DirY1e  :> [content |-> "object", name |-> Undef,  version |-> Undef])   @@
  (DirY2   :> [content |-> "object", name |-> "pkgY", version |-> "1.0.0"]) @@
  (DirY3   :> [content |-> "object", name |-> "pkgY", version |-> "2.0.0"]) @@
  (DirX1   :> [content |-> "object", name |-> "pkgX", version |-> "1.0.0"]) @@
  (DirX2   :> [content |-> "object", name |-> "pkgX", version |-> "2.0.0"]) @@
  (DirPriv :> [content |-> "object", name |-> "priv", version |-> Undef])   @@
  (DirBad  :> [content |-> "unparseable", name |-> Undef, version |-> Undef]) @@
  (DirY3v  :> [content |-> "unparseable", name |-> Undef, version |-> Undef]) @@
  (DirLock :> [content |-> "unreadable", name |-> Undef, version |-> Undef])

\* the files a resolution or a bundle can name
FileSegs ==
  { DirApp  \o <<"src", "main.js">>,
    DirY1   \o <<"index.js">>,
    DirY1e  \o <<"index.js">>,
    DirY2   \o <<"index.js">>,
    DirY3   \o <<"index.js">>,
    DirX1   \o <<"index.js">>,
    DirX2   \o <<"index.js">>,
    DirPriv \o <<"index.js">>,
    DirBad  \o <<"index.js">>,
    DirY3v  \o <<"index.js">>,
    DirLock \o <<"index.js">>,
    <<"tmp", nm, "orphan", "x.js">> }

Files(p) == {HostId(p, f) : f \in FileSegs}

\* the module ids handed to an analysis
AnalysableSegs ==
  { DirApp  \o <<"src", "main.js">>,
    DirY1   \o <<"index.js">>,
    DirY2   \o <<"index.js">>,
    DirY3   \o <<"index.js">>,
    DirX1   \o <<"index.js">>,
    DirX2   \o <<"index.js">>,
    <<"tmp", nm, "orphan", "x.js">> }

Analysable(p) == {HostId(p, f) : f \in AnalysableSegs}

\* the files the host's resolver lands on in a session
ResolvableSegs ==
  { DirApp  \o <<"src", "main.js">>,
    DirY1   \o <<"index.js">>,
    DirY1e  \o <<"index.js">>,
    DirY2   \o <<"index.js">>,
    DirY3   \o <<"index.js">>,
    <<"tmp", nm, "orphan", "x.js">> }

Resolvable(p) == {HostId(p, f) : f \in ResolvableSegs}

\* ------------------------------------------------------- manifest resolver
\* path.normalize: every "/" becomes the platform separator
normalize(p, path) ==
  [i \in 1..Len(path) |-> IF path[i] = "/" THEN sep(p) ELSE path[i]]

\* String.replace(/\\/g, '/')
toForwardSlashes(path) ==
  [i \in 1..Len(path) |-> IF path[i] = "\\" THEN "/" ELSE path[i]]

\* the text before the last path.sep (the empty string when there is none)
popDir(p, path) ==
  LET idx == {i \in 1..Len(path) : path[i] = sep(p)}
  IN  IF idx = {} THEN <<>>
      ELSE SubSeq(path, 1, (CHOOSE i \in idx : \A j \in idx : j <= i) - 1)

\* fs.existsSync(join(dir, 'package.json'))
existsSync(p, dir) == \E d \in DOMAIN Manifests : NativeDir(p, d) = dir

\* readFileSync + JSON.parse of the manifest in dir
readManifest(p, dir) ==
  Manifests[CHOOSE d \in DOMAIN Manifests : NativeDir(p, d) = dir]

\* find-root: the nearest directory, starting with the path itself, that
\* holds a package.json; ok is FALSE when it throws (none up to the top)
RECURSIVE findRoot(_, _)
findRoot(p, start) ==
  IF start = <<>> THEN [ok |-> FALSE, root |-> <<>>]
  ELSE IF start[Len(start)] = sep(p) THEN findRoot(p, SubSeq(start, 1, Len(start) - 1))
  ELSE IF existsSync(p, start) THEN [ok |-> TRUE, root |-> start]
  ELSE findRoot(p, popDir(p, start))

\* path.resolve(root, '..'); the parent of the top directory is the top
\* directory, which path.resolve spells with its separator
parentDir(p, root) ==
  LET up == popDir(p, root)
  IN  IF up = drive(p) \/ root = drive(p) THEN drive(p) \o <<sep(p)>> ELSE up

\* getPackageJsonForPath's undefined result
NotFound == [found |-> FALSE, name |-> Undef, version |-> Undef, rootPath |-> <<>>]

\* variant: a manifest that cannot be read or parsed is climbed over like a
\* dummy one
RECURSIVE getPackageJsonForPath_ClimbsOverFailure(_, _)
getPackageJsonForPath_ClimbsOverFailure(p, path) ==
  LET normalizedPath == normalize(p, path)
      r == findRoot(p, normalizedPath)
  IN  IF ~r.ok THEN NotFound
      ELSE LET packageJson == readManifest(p, r.root)
           IN  IF \/ packageJson.content # "object"
                  \/ packageJson.name = Undef /\ packageJson.version = Undef
                 THEN getPackageJsonForPath_ClimbsOverFailure(p, parentDir(p, r.root))
               ELSE [found |-> TRUE, name |-> packageJson.name,
                     version |-> packageJson.version, rootPath |-> r.root]

RECURSIVE getPackageJsonForPath(_, _)
getPackageJsonForPath(p, path) ==
  LET normalizedPath == normalize(p, path)
      r == findRoot(p, normalizedPath)
  IN  IF ~r.ok THEN NotFound
      ELSE LET packageJson == readManifest(p, r.root)
           IN  IF packageJson.content # "object" THEN NotFound
               ELSE IF packageJson.name = Undef /\ packageJson.version = Undef
                 THEN getPackageJsonForPath(p, parentDir(p, r.root))
               ELSE [found |-> TRUE, name |-> packageJson.name,
                     version |-> packageJson.version, rootPath |-> r.root]

\* getPackageJsonForPath on the files of the model, tabulated
packageInfoOf ==
  [p \in Platforms |-> [f \in Files(p) |-> getPackageJsonForPath(p, f)]]

\* String.includes('node_modules'): some token holds the text
includesNodeModules(path) == \E i \in 1..Len(path) : path[i] = nm

\* -------------------------------------------------------- duplicate analyzer
\* a JS Map / Set keeps insertion order: both are sequences without repeats
IndexOf(seq, x) ==
  IF \E i \in 1..Len(seq) : seq[i] = x
  THEN CHOOSE i \in 1..Len(seq) : seq[i] = x /\ \A j \in 1..(i - 1) : seq[j] # x
  ELSE 0

\* variant: a version is compared with the one added last only
setAdd_ComparesLast(seq, x) ==
  IF seq # <<>> /\ seq[Len(seq)] = x THEN seq ELSE Append(seq, x)

\* variant: a list that keeps every occurrence
setAdd_KeepsRepeats(seq, x) == Append(seq, x)

\* Set.add
setAdd(seq, x) == IF IndexOf(seq, x) = 0 THEN Append(seq, x) ELSE seq

\* a property key is the string form of the value used as key
propertyKey(v) == IF v = Undef THEN "undefined" ELSE v

\* variant: the loop without the node_modules test, as generateBundle had it
\* before the analysis became a function of its own
RECURSIVE collectPackages_NoBoundaryCheck(_, _, _)
collectPackages_NoBoundaryCheck(p, moduleIds, packagesMap) ==
  IF moduleIds = <<>> THEN packagesMap
  ELSE LET moduleId == Head(moduleIds)
           packageInfo == packageInfoOf[p][moduleId]
           names == [i \in 1..Len(packagesMap) |-> packagesMap[i].name]
           at == IndexOf(names, packageInfo.name)
           next ==
             IF ~packageInfo.found THEN packagesMap
             ELSE IF at = 0
               THEN Append(packagesMap, [name |-> packageInfo.name,
                                         versions |-> <<packageInfo.version>>])
             ELSE [packagesMap EXCEPT ![at].versions = setAdd(@, packageInfo.version)]
       IN  collectPackages_NoBoundaryCheck(p, Tail(moduleIds), next)

\* packagesMap after the first loop of analyzeForDuplicates: a sequence of
\* [name, versions] in the order the names were first seen
RECURSIVE collectPackages(_, _, _)
collectPackages(p, moduleIds, packagesMap) ==
  IF moduleIds = <<>> THEN packagesMap
  ELSE LET moduleId == Head(moduleIds)
           packageInfo == packageInfoOf[p][moduleId]
           names == [i \in 1..Len(packagesMap) |-> packagesMap[i].name]
           at == IndexOf(names, packageInfo.name)
           next ==
             IF ~includesNodeModules(moduleId) \/ ~packageInfo.found THEN packagesMap
             ELSE IF at = 0
               THEN Append(packagesMap, [name |-> packageInfo.name,
                                         versions |-> <<packageInfo.version>>])
             ELSE [packagesMap EXCEPT ![at].versions = setAdd(@, packageInfo.version)]
       IN  collectPackages(p, Tail(moduleIds), next)

\* variant: the error does not carry the exception's maximum
duplicateErrorFor_DropsMax(entry, exceptions) ==
  LET key == propertyKey(entry.name)
      hasException == key \in DOMAIN exceptions
  IN  IF Len(entry.versions) > 1
         /\ (~hasException \/ Len(entry.versions) > exceptions[key])
      THEN << [packageName |-> entry.name, versions |-> entry.versions,
               maxAllowedVersionCount |-> <<>>] >>
      ELSE <<>>

\* variant: a version count equal to the allowed maximum is an error too
duplicateErrorFor_MaxExclusive(entry, exceptions) ==
  LET key == propertyKey(entry.name)
      hasException == key \in DOMAIN exceptions
  IN  IF Len(entry.versions) > 1
         /\ (~hasException \/ Len(entry.versions) >= exceptions[key])
      THEN << [packageName |-> entry.name, versions |-> entry.versions,
               maxAllowedVersionCount |-> IF hasException THEN <<exceptions[key]>> ELSE <<>>] >>
      ELSE <<>>

\* the entry pushed for one package, or none; maxAllowedVersionCount is an
\* optional field: <<n>> when set, <<>> when undefined
duplicateErrorFor(entry, exceptions) ==
  LET key == propertyKey(entry.name)
      hasException == key \in DOMAIN exceptions
  IN  IF Len(entry.versions) > 1
         /\ (~hasException \/ Len(entry.versions) > exceptions[key])
      THEN << [packageName |-> entry.name, versions |-> entry.versions,
               maxAllowedVersionCount |-> IF hasException THEN <<exceptions[key]>> ELSE <<>>] >>
      ELSE <<>>

RECURSIVE collectErrors(_, _)
collectErrors(packagesMap, exceptions) ==
  IF packagesMap = <<>> THEN <<>>
  ELSE duplicateErrorFor(Head(packagesMap), exceptions)
         \o collectErrors(Tail(packagesMap), exceptions)

\* variant: the unused exceptions are not reported
analyzeForDuplicates_NoUnused(p, moduleIds, cfg) ==
  [duplicatePackageErrors |->
     collectErrors(collectPackages(p, moduleIds, <<>>), cfg.exceptions),
   unusedExceptions |-> {}]

\* variant: no exception is ever taken off the unused set
analyzeForDuplicates_NeverUsed(p, moduleIds, cfg) ==
  [duplicatePackageErrors |->
     collectErrors(collectPackages(p, moduleIds, <<>>), cfg.exceptions),
   unusedExceptions |-> DOMAIN cfg.exceptions]

analyzeForDuplicates(p, moduleIds, cfg) ==
  LET packagesMap == collectPackages(p, moduleIds, <<>>)
      seen == {packagesMap[i].name : i \in 1..Len(packagesMap)}
  IN  [duplicatePackageErrors |-> collectErrors(packagesMap, cfg.exceptions),
       unusedExceptions |-> (DOMAIN cfg.exceptions) \ seen]

\* variant: only duplicates count as issues
hasIssues_DuplicatesOnly(result) == Len(result.duplicatePackageErrors) > 0

hasIssues(result) ==
  Len(result.duplicatePackageErrors) > 0 \/ Cardinality(result.unusedExceptions) > 0

\* ------------------------------------------------------------ configuration
\* exceptions: package name -> maxAllowedVersionCount
Policies ==
  { [n \in {} |-> 0],
    ("pkgX" :> 2),
    ("pkgX" :> 1),
    ("pkgZ" :> 3),
    ("pkgX" :> 2) @@ ("pkgZ" :> 3),
    ("pkgX" :> 1) @@ ("pkgY" :> 2),
    ("app" :> 2) }

\* the policies of the sessions explored
SessionPolicies == { ("pkgY" :> 1) }

\* variant: in serve the plugin applies when deduplicateDoppelgangers is on
apply_DedupInServe(cfg, cmd) ==
  IF cmd = "build" THEN TRUE ELSE cfg.deduplicateDoppelgangers = TRUE

\* the plugin's apply(): always in build, in serve only with enableInDev
apply(cfg, cmd) == IF cmd = "build" THEN TRUE ELSE cfg.enableInDev = TRUE

\* --------------------------------------------------------------- resolveId
\* the specifiers a host asks about: a bare import and a virtual module
Sources == { <<"dep">>, <<NUL, "virtual">> }

\* the importing modules: none (an entry point) or a file
Importers(p) ==
  { NoPath, HostId(p, DirApp \o <<"src", "main.js">>) }

\* String.startsWith('\0')
startsWithNUL(source) == Len(source) > 0 /\ source[1] = NUL

\* String.replace(pattern, replacement) with a string pattern: the first
\* occurrence only, the text itself when there is none
replace(str, pattern, replacement) ==
  LET n == Len(pattern)
      hits == {i \in 1..(Len(str) - n + 1) : SubSeq(str, i, i + n - 1) = pattern}
  IN  IF hits = {} THEN str
      ELSE LET i == CHOOSE h \in hits : \A k \in hits : h <= k
           IN  SubSeq(str, 1, i - 1) \o replacement \o SubSeq(str, i + n, Len(str))

\* variant: the registry keyed by the package name alone
packageIdOf_NameOnly(packageInfo) == <<propertyKey(packageInfo.name)>>

\* the template literal `${name}@${version}`
packageIdOf(packageInfo) ==
  <<propertyKey(packageInfo.name), "@", propertyKey(packageInfo.version)>>

\* variant: the canonical root is returned without the subpath
redirectedIdOf_RootOnly(resolvedId, rootPath, resolveToPath) ==
  toForwardSlashes(resolveToPath)

\* variant: the substitution without the separator normalisation
redirectedIdOf_NoNormalize(resolvedId, rootPath, resolveToPath) ==
  replace(resolvedId, rootPath, resolveToPath)

\* the id returned for a doppelganger
redirectedIdOf(resolvedId, rootPath, resolveToPath) ==
  LET normalizedOriginalPath == toForwardSlashes(rootPath)
      normalizedCanonicalPath == toForwardSlashes(resolveToPath)
  IN  replace(resolvedId, normalizedOriginalPath, normalizedCanonicalPath)

\* variant: every resolution of a registered name@version is redirected, the
\* ones already under the canonical root too
deduplicate_RedirectsCanonical(map, resolvedId, packageInfo) ==
  LET packageId == packageIdOf(packageInfo)
  IN  IF packageId \in DOMAIN map
      THEN [map |-> [map EXCEPT ![packageId].paths = @ \cup {packageInfo.rootPath}],
            returned |-> redirectedIdOf(resolvedId, packageInfo.rootPath,
                                        map[packageId].resolveToPath)]
      ELSE [map |-> map @@ (packageId :> [resolveToPath |-> packageInfo.rootPath,
                                          paths |-> {packageInfo.rootPath}]),
            returned |-> NoPath]

\* variant: a later root takes over as canonical instead of being redirected
deduplicate_LastWins(map, resolvedId, packageInfo) ==
  LET packageId == packageIdOf(packageInfo)
  IN  [map |-> IF packageId \in DOMAIN map
               THEN [map EXCEPT ![packageId] =
                       [resolveToPath |-> packageInfo.rootPath,
                        paths |-> @.paths \cup {packageInfo.rootPath}]]
               ELSE map @@ (packageId :> [resolveToPath |-> packageInfo.rootPath,
                                          paths |-> {packageInfo.rootPath}]),
       returned |-> NoPath]

\* variant: a root is redirected only the first time it is seen
deduplicate_RedirectOnce(map, resolvedId, packageInfo) ==
  LET packageId == packageIdOf(packageInfo)
      hasMatch == packageId \in DOMAIN map
  IN  IF hasMatch /\ packageInfo.rootPath \notin map[packageId].paths
      THEN [map |-> [map EXCEPT ![packageId].paths = @ \cup {packageInfo.rootPath}],
            returned |-> redirectedIdOf(resolvedId, packageInfo.rootPath,
                                        map[packageId].resolveToPath)]
      ELSE IF ~hasMatch
      THEN [map |-> map @@ (packageId :> [resolveToPath |-> packageInfo.rootPath,
                                          paths |-> {packageInfo.rootPath}]),
            returned |-> NoPath]
      ELSE [map |-> map, returned |-> NoPath]

\* variant: a new entry starts with no observed root
deduplicate_EmptyFirst(map, resolvedId, packageInfo) ==
  LET packageId == packageIdOf(packageInfo)
      hasMatch == packageId \in DOMAIN map
  IN  IF hasMatch /\ map[packageId].resolveToPath # packageInfo.rootPath
      THEN [map |-> [map EXCEPT ![packageId].paths = @ \cup {packageInfo.rootPath}],
            returned |-> redirectedIdOf(resolvedId, packageInfo.rootPath,
                                        map[packageId].resolveToPath)]
      ELSE IF ~hasMatch
      THEN [map |-> map @@ (packageId :> [resolveToPath |-> packageInfo.rootPath,
                                          paths |-> {}]),
            returned |-> NoPath]
      ELSE [map |-> map, returned |-> NoPath]

\* the doppelganger branch of resolveId: the registry afterwards and the
\* value returned (NoPath for null)
deduplicate(map, resolvedId, packageInfo) ==
  LET packageId == packageIdOf(packageInfo)
      hasMatch == packageId \in DOMAIN map
  IN  IF hasMatch /\ map[packageId].resolveToPath # packageInfo.rootPath
      THEN [map |-> [map EXCEPT ![packageId].paths = @ \cup {packageInfo.rootPath}],
            returned |-> redirectedIdOf(resolvedId, packageInfo.rootPath,
                                        map[packageId].resolveToPath)]
      ELSE IF ~hasMatch
      THEN [map |-> map @@ (packageId :> [resolveToPath |-> packageInfo.rootPath,
                                          paths |-> {packageInfo.rootPath}]),
            returned |-> NoPath]
      ELSE [map |-> map, returned |-> NoPath]

\* variant: the id is tracked before the node_modules test
afterResolve_TracksOutside(p, cfg, map, ids, resolved) ==
  IF resolved = NoPath
  THEN [map |-> map, ids |-> ids, packageInfo |-> NotFound, returned |-> NoPath]
  ELSE IF ~includesNodeModules(resolved)
  THEN [map |-> map, ids |-> ids \cup {resolved}, packageInfo |-> NotFound,
        returned |-> NoPath]
  ELSE IF ~packageInfoOf[p][resolved].found
  THEN [map |-> map, ids |-> ids \cup {resolved}, packageInfo |-> NotFound,
        returned |-> NoPath]
  ELSE IF cfg.deduplicateDoppelgangers
  THEN [ids |-> ids \cup {resolved}, packageInfo |-> packageInfoOf[p][resolved]]
         @@ deduplicate(map, resolved, packageInfoOf[p][resolved])
  ELSE [map |-> map, ids |-> ids \cup {resolved},
        packageInfo |-> packageInfoOf[p][resolved], returned |-> NoPath]

\* variant: the id is tracked after the manifest lookup, when it succeeded
afterResolve_TracksFoundOnly(p, cfg, map, ids, resolved) ==
  IF resolved = NoPath \/ ~includesNodeModules(resolved)
  THEN [map |-> map, ids |-> ids, packageInfo |-> NotFound, returned |-> NoPath]
  ELSE IF ~packageInfoOf[p][resolved].found
  THEN [map |-> map, ids |-> ids, packageInfo |-> NotFound, returned |-> NoPath]
  ELSE IF cfg.deduplicateDoppelgangers
  THEN [ids |-> ids \cup {resolved}, packageInfo |-> packageInfoOf[p][resolved]]
         @@ deduplicate(map, resolved, packageInfoOf[p][resolved])
  ELSE [map |-> map, ids |-> ids \cup {resolved},
        packageInfo |-> packageInfoOf[p][resolved], returned |-> NoPath]

\* variant: the id tracked is the one the resolution ends with
afterResolve_TracksFinal(p, cfg, map, ids, resolved) ==
  IF resolved = NoPath \/ ~includesNodeModules(resolved)
  THEN [map |-> map, ids |-> ids, packageInfo |-> NotFound, returned |-> NoPath]
  ELSE IF ~packageInfoOf[p][resolved].found
  THEN [map |-> map, ids |-> ids \cup {resolved}, packageInfo |-> NotFound,
        returned |-> NoPath]
  ELSE IF cfg.deduplicateDoppelgangers
  THEN LET d == deduplicate(map, resolved, packageInfoOf[p][resolved])
       IN  [map |-> d.map, returned |-> d.returned,
            ids |-> ids \cup {IF d.returned = NoPath THEN resolved ELSE d.returned},
            packageInfo |-> packageInfoOf[p][resolved]]
  ELSE [map |-> map, ids |-> ids \cup {resolved},
        packageInfo |-> packageInfoOf[p][resolved], returned |-> NoPath]

\* variant: the doppelganger branch runs whatever the configuration says
afterResolve_IgnoresFlag(p, cfg, map, ids, resolved) ==
  IF resolved = NoPath \/ ~includesNodeModules(resolved)
  THEN [map |-> map, ids |-> ids, packageInfo |-> NotFound, returned |-> NoPath]
  ELSE IF ~packageInfoOf[p][resolved].found
  THEN [map |-> map, ids |-> ids \cup {resolved}, packageInfo |-> NotFound,
        returned |-> NoPath]
  ELSE [ids |-> ids \cup {resolved}, packageInfo |-> packageInfoOf[p][resolved]]
         @@ deduplicate(map, resolved, packageInfoOf[p][resolved])

\* resolveId from the point where the host's resolution has arrived
afterResolve(p, cfg, map, ids, resolved) ==
  IF resolved = NoPath \/ ~includesNodeModules(resolved)
  THEN [map |-> map, ids |-> ids, packageInfo |-> NotFound, returned |-> NoPath]
  ELSE IF ~packageInfoOf[p][resolved].found
  THEN [map |-> map, ids |-> ids \cup {resolved}, packageInfo |-> NotFound,
        returned |-> NoPath]
  ELSE IF cfg.deduplicateDoppelgangers
  THEN [ids |-> ids \cup {resolved}, packageInfo |-> packageInfoOf[p][resolved]]
         @@ deduplicate(map, resolved, packageInfoOf[p][resolved])
  ELSE [map |-> map, ids |-> ids \cup {resolved},
        packageInfo |-> packageInfoOf[p][resolved], returned |-> NoPath]

\* the path the host ends up with: the returned id, or its own resolution
finalPath(resolved, returned) == IF returned = NoPath THEN resolved ELSE returned

\* ---------------------------------------------------------- generateBundle
\* the module ids of the bundle's chunks, in order
RECURSIVE bundleModuleIds(_)
bundleModuleIds(bundle) ==
  IF bundle = <<>> THEN <<>>
  ELSE (IF Head(bundle).type = "chunk" THEN Head(bundle).modules ELSE <<>>)
         \o bundleModuleIds(Tail(bundle))

\* variant: the versions of a line in ascending order
duplicateDetails_SortedVersions(duplicatePackageErrors) ==
  [i \in 1..Len(duplicatePackageErrors) |->
     [packageName |-> duplicatePackageErrors[i].packageName,
      versionList |->
        LET listed(v) == v \in Range(duplicatePackageErrors[i].versions)
        IN  SelectSeq(<<"1.0.0", "2.0.0", "3.0.0">>, listed),
      exceptionNote |->
        IF duplicatePackageErrors[i].maxAllowedVersionCount # <<>>
        THEN <<duplicatePackageErrors[i].maxAllowedVersionCount[1],
               Len(duplicatePackageErrors[i].versions)>>
        ELSE <<>>]]

\* one line of the message per duplicate package: the versions in the order
\* of the Set, and the note when the error carries a maximum
duplicateDetails(duplicatePackageErrors) ==
  [i \in 1..Len(duplicatePackageErrors) |->
     [packageName |-> duplicatePackageErrors[i].packageName,
      versionList |-> duplicatePackageErrors[i].versions,
      exceptionNote |->
        IF duplicatePackageErrors[i].maxAllowedVersionCount # <<>>
        THEN <<duplicatePackageErrors[i].maxAllowedVersionCount[1],
               Len(duplicatePackageErrors[i].versions)>>
        ELSE <<>>]]

\* the parts of the error message, empty when there is nothing to report
errorParts(result) ==
  (IF Len(result.duplicatePackageErrors) > 0
   THEN << [part |-> "duplicates",
            details |-> duplicateDetails(result.duplicatePackageErrors)] >>
   ELSE <<>>)
  \o
  (IF Cardinality(result.unusedExceptions) > 0
   THEN << [part |-> "unused", details |-> result.unusedExceptions] >>
   ELSE <<>>)

\* a bundle of one chunk, and one whose modules are spread over two chunks
\* with an asset between them
bundleShapes(moduleIds) ==
  { << [type |-> "chunk", modules |-> moduleIds] >> } \cup
  IF moduleIds = <<>> THEN { << [type |-> "asset"] >> }
  ELSE { << [type |-> "chunk", modules |-> <<Head(moduleIds)>>],
            [type |-> "asset"],
            [type |-> "chunk", modules |-> Tail(moduleIds)] >> }

\* the sequences of at most n elements of S
BoundedSeq(S, n) == UNION {[1..k -> S] : k \in 0..n}

\* ------------------------------------------------------------------ actions
\* the closure state of a plugin instance right after duplicatePackagesPlugin
NewInstance ==
  [doppelgangerMap |-> [k \in {} |-> 0], resolvedModuleIds |-> {},
   history |-> <<>>, returned |-> NoPath]

Init ==
  /\ platform \in Platforms
  /\ command \in {"build", "serve"}
  /\ config \in [deduplicateDoppelgangers : BOOLEAN, exceptions : SessionPolicies,
                 enableInDev : BOOLEAN]
  /\ doppelgangerMap = [k \in {} |-> 0]
  /\ resolvedModuleIds = {}
  /\ pending = <<>>
  /\ last = [op |-> "none"]
  /\ firstRoot = [k \in {} |-> 0]
  /\ firstFinal = [k \in {} |-> 0]
  /\ redirected = {}
  /\ other = NewInstance

\* resolveId up to its await: the guard, then the host's resolution is asked
ResolveIdCall(source, importer) ==
  /\ apply(config, command)
  /\ IF importer = NoPath \/ startsWithNUL(source)
     THEN /\ last' = [op |-> "resolveId", source |-> source, importer |-> importer,
                      hostCalled |-> FALSE, overtook |-> FALSE, fresh |-> FALSE,
                      repeat |-> FALSE, resolved |-> NoPath,
                      packageInfo |-> NotFound, returned |-> NoPath]
          /\ UNCHANGED pending
     ELSE /\ Len(pending) < MaxPending
          /\ pending' = Append(pending, [source |-> source, importer |-> importer,
                                          fresh |-> (DOMAIN doppelgangerMap = {})])
          /\ UNCHANGED last
  /\ UNCHANGED <<other, platform, command, config, doppelgangerMap, resolvedModuleIds,
                 firstRoot, firstFinal, redirected>>

\* variant: a call that returns before one issued earlier does not enter its
\* root in the registry
ResolveIdResume_CallOrder(i, resolved) ==
  /\ i \in 1..Len(pending)
  /\ pending' = SubSeq(pending, 1, i - 1) \o SubSeq(pending, i + 1, Len(pending))
  /\ \E r \in {afterResolve(platform, config, doppelgangerMap, resolvedModuleIds, resolved)} :
     \E packageId \in {packageIdOf(r.packageInfo)} :
         /\ doppelgangerMap' = IF i > 1 THEN doppelgangerMap ELSE r.map
         /\ resolvedModuleIds' = r.ids
         /\ last' = [op |-> "resolveId", source |-> pending[i].source,
                     importer |-> pending[i].importer, hostCalled |-> TRUE,
                     overtook |-> (i > 1), fresh |-> pending[i].fresh,
                     repeat |-> (resolved \in DOMAIN firstFinal), resolved |-> resolved,
                     packageInfo |-> r.packageInfo, returned |-> r.returned]
         /\ firstRoot' = IF r.packageInfo.found /\ packageId \notin DOMAIN firstRoot
                         THEN firstRoot @@ (packageId :> r.packageInfo.rootPath)
                         ELSE firstRoot
         /\ firstFinal' = IF r.packageInfo.found /\ resolved \notin DOMAIN firstFinal
                          THEN firstFinal @@ (resolved :> finalPath(resolved, r.returned))
                          ELSE firstFinal
         /\ redirected' = IF r.returned # NoPath
                          THEN redirected \cup {<<packageId, r.packageInfo.rootPath>>}
                          ELSE redirected
  /\ UNCHANGED <<other, platform, command, config>>

\* resolveId from its await to its return, run without interruption once the
\* host's resolution (a file, or null) has arrived for the i-th waiting call
ResolveIdResume(i, resolved) ==
  /\ i \in 1..Len(pending)
  /\ pending' = SubSeq(pending, 1, i - 1) \o SubSeq(pending, i + 1, Len(pending))
  /\ \E r \in {afterResolve(platform, config, doppelgangerMap, resolvedModuleIds, resolved)} :
     \E packageId \in {packageIdOf(r.packageInfo)} :
         /\ doppelgangerMap' = r.map
         /\ resolvedModuleIds' = r.ids
         /\ last' = [op |-> "resolveId", source |-> pending[i].source,
                     importer |-> pending[i].importer, hostCalled |-> TRUE,
                     overtook |-> (i > 1), fresh |-> pending[i].fresh,
                     repeat |-> (resolved \in DOMAIN firstFinal), resolved |-> resolved,
                     packageInfo |-> r.packageInfo, returned |-> r.returned]
         /\ firstRoot' = IF r.packageInfo.found /\ packageId \notin DOMAIN firstRoot
                         THEN firstRoot @@ (packageId :> r.packageInfo.rootPath)
                         ELSE firstRoot
         /\ firstFinal' = IF r.packageInfo.found /\ resolved \notin DOMAIN firstFinal
                          THEN firstFinal @@ (resolved :> finalPath(resolved, r.returned))
                          ELSE firstFinal
         /\ redirected' = IF r.returned # NoPath
                          THEN redirected \cup {<<packageId, r.packageInfo.rootPath>>}
                          ELSE redirected
  /\ UNCHANGED <<other, platform, command, config>>

\* variant: the count of observed roots, the canonical one included
buildEndLines_CountsCanonical(cfg, map) ==
  IF cfg.deduplicateDoppelgangers
  THEN { [packageId |-> k, eliminated |-> Cardinality(map[k].paths)] :
         k \in {j \in DOMAIN map : Cardinality(map[j].paths) > 1} }
  ELSE {}

\* the lines buildEnd logs: one per registry entry with more than one root
buildEndLines(cfg, map) ==
  IF cfg.deduplicateDoppelgangers
  THEN { [packageId |-> k, eliminated |-> Cardinality(map[k].paths) - 1] :
         k \in {j \in DOMAIN map : Cardinality(map[j].paths) > 1} }
  ELSE {}

\* variant: buildEnd starts from an empty registry again once it has reported
BuildEnd_ClearsRegistry ==
  /\ apply(config, command)
  /\ last' = [op |-> "buildEnd", lines |-> buildEndLines(config, doppelgangerMap)]
  /\ doppelgangerMap' = [k \in {} |-> 0]
  /\ UNCHANGED <<other, platform, command, config, resolvedModuleIds,
                 pending, firstRoot, firstFinal, redirected>>

\* variant: buildEnd fails the build when a name was resolved in two versions
BuildEnd_Gates ==
  /\ apply(config, command)
  /\ last' = [op |-> "buildEnd", lines |-> buildEndLines(config, doppelgangerMap),
              errors |-> IF \E j \in DOMAIN doppelgangerMap :
                              \E k \in DOMAIN doppelgangerMap : j # k /\ j[1] = k[1]
                         THEN << << [part |-> "duplicates", details |-> <<>>] >> >>
                         ELSE <<>>]
  /\ UNCHANGED <<other, platform, command, config, doppelgangerMap, resolvedModuleIds,
                 pending, firstRoot, firstFinal, redirected>>

\* variant: buildEnd forgets the eliminated roots once it has reported them
BuildEnd_ResetsCounts ==
  /\ apply(config, command)
  /\ last' = [op |-> "buildEnd", lines |-> buildEndLines(config, doppelgangerMap)]
  /\ doppelgangerMap' = [k \in DOMAIN doppelgangerMap |->
                           [doppelgangerMap[k] EXCEPT
                              !.paths = {doppelgangerMap[k].resolveToPath}]]
  /\ UNCHANGED <<other, platform, command, config, resolvedModuleIds,
                 pending, firstRoot, firstFinal, redirected>>

\* buildEnd: the eliminated doppelgangers are logged
BuildEnd ==
  /\ apply(config, command)
  /\ last' = [op |-> "buildEnd", lines |-> buildEndLines(config, doppelgangerMap)]
  /\ UNCHANGED <<other, platform, command, config, doppelgangerMap, resolvedModuleIds,
                 pending, firstRoot, firstFinal, redirected>>

\* variant: this.error at the first violation met, which ends the hook there
bundleErrors_FirstOnly(result) ==
  IF Len(result.duplicatePackageErrors) > 0
  THEN << << [part |-> "duplicates",
              details |-> duplicateDetails(<<result.duplicatePackageErrors[1]>>)] >> >>
  ELSE IF Cardinality(result.unusedExceptions) > 0
  THEN << << [part |-> "unused",
              details |-> {CHOOSE n \in result.unusedExceptions : TRUE}] >> >>
  ELSE <<>>

\* the calls of this.error in one generateBundle, each with its message
bundleErrors(result) ==
  IF hasIssues(result) THEN << errorParts(result) >> ELSE <<>>

\* generateBundle: the analysis of the bundle's modules, then this.error
\* with the joined parts when there is anything to report
GenerateBundle(bundle) ==
  /\ apply(config, command)
  /\ command = "build"
  /\ \E result \in {analyzeForDuplicates(platform, bundleModuleIds(bundle), config)} :
       last' = [op |-> "generateBundle", bundle |-> bundle,
                moduleIds |-> bundleModuleIds(bundle), result |-> result,
                hasErrors |-> hasIssues(result),
                error |-> IF hasIssues(result) THEN errorParts(result) ELSE <<>>,
                errors |-> bundleErrors(result)]
  /\ UNCHANGED <<other, platform, command, config, doppelgangerMap, resolvedModuleIds,
                 pending, firstRoot, firstFinal, redirected>>

\* the bundles of the sessions explored
SessionBundles(p) ==
  { << [type |-> "chunk", modules |-> <<HostId(p, DirApp \o <<"src", "main.js">>)>>] >>,
    << [type |-> "chunk", modules |-> <<HostId(p, DirY1 \o <<"index.js">>)>>] >>,
    << [type |-> "chunk", modules |-> <<HostId(p, DirY1 \o <<"index.js">>),
                                         HostId(p, DirY3 \o <<"index.js">>)>>] >> }

Next ==
  \/ \E source \in Sources : \E importer \in Importers(platform) :
       ResolveIdCall(source, importer)
  \/ \E i \in 1..Len(pending) : \E resolved \in Resolvable(platform) \cup {NoPath} :
       ResolveIdResume(i, resolved)
  \/ BuildEnd
  \/ \E bundle \in SessionBundles(platform) : GenerateBundle(bundle)

Spec == Init /\ [][Next]_vars

\* ------------------------------------------------- the analysis on its own
\* analyzeForDuplicates called on a sequence of module ids
Analyze(moduleIds) ==
  /\ last' = [op |-> "analyze", moduleIds |-> moduleIds,
              result |-> analyzeForDuplicates(platform, moduleIds, config)]
  /\ UNCHANGED <<other, platform, command, config, doppelgangerMap, resolvedModuleIds,
                 pending, firstRoot, firstFinal, redirected>>

InitReport ==
  /\ platform \in Platforms
  /\ command = "build"
  /\ config \in [deduplicateDoppelgangers : BOOLEAN, exceptions : Policies,
                 enableInDev : {FALSE}]
  /\ doppelgangerMap = [k \in {} |-> 0]
  /\ resolvedModuleIds = {}
  /\ pending = <<>>
  /\ last = [op |-> "none"]
  /\ firstRoot = [k \in {} |-> 0]
  /\ firstFinal = [k \in {} |-> 0]
  /\ redirected = {}
  /\ other = NewInstance

\* one analysis of one input per behaviour
NextReport ==
  \/ /\ last.op = "none"
     /\ \E moduleIds \in BoundedSeq(Analysable(platform), MaxModules) : Analyze(moduleIds)
  \/ /\ last.op = "none"
     /\ \E moduleIds \in BoundedSeq(Analysable(platform), MaxModules) :
          \E bundle \in bundleShapes(moduleIds) : GenerateBundle(bundle)

SpecReport == InitReport /\ [][NextReport]_vars

\* ------------------------------------------------------- the dev server
\* the policies of the dev sessions explored: none, and one with an exception
\* for a package that is there and one for a package that is not
DevPolicies == { [n \in {} |-> 0], ("pkgY" :> 1) @@ ("pkgZ" :> 3) }

\* the files the dev server's resolver lands on
DevResolvableSegs ==
  { DirApp \o <<"src", "main.js">>,
    DirY1  \o <<"index.js">>,
    DirY2  \o <<"index.js">>,
    DirY3  \o <<"index.js">> }

DevResolvable(p) == {HostId(p, f) : f \in DevResolvableSegs}

\* server.moduleGraph.idToModuleMap.values(): the host's module nodes, in the
\* map's order; the id of a node can be null
GraphShapes(p) ==
  { <<>>,
    << [id |-> NoPath], [id |-> HostId(p, DirY3 \o <<"index.js">>)] >>,
    << [id |-> HostId(p, DirX1 \o <<"index.js">>)],
       [id |-> HostId(p, DirX2 \o <<"index.js">>)],
       [id |-> HostId(p, DirY1 \o <<"index.js">>)] >> }

\* the orders in which a Set can hand out its elements: resolvedModuleIds is
\* kept without its insertion order, so every order is a possible one
Orderings(S) ==
  { f \in [1..Cardinality(S) -> S] :
      \A i \in 1..Cardinality(S) : \A j \in 1..Cardinality(S) : i # j => f[i] # f[j] }

\* allModuleIds after the loop over the module graph
RECURSIVE addGraphIds(_, _)
addGraphIds(allModuleIds, graph) ==
  IF graph = <<>> THEN allModuleIds
  ELSE addGraphIds(IF Head(graph).id # NoPath
                   THEN setAdd(allModuleIds, Head(graph).id)
                   ELSE allModuleIds,
                   Tail(graph))

\* variant: the report says there are issues only when there are duplicates
jsonResult_DuplicatesOnly(result) ==
  [duplicatePackageErrors |-> result.duplicatePackageErrors,
   unusedExceptions |-> result.unusedExceptions,
   hasIssues |-> Len(result.duplicatePackageErrors) > 0]

\* the body of the response: the Sets as arrays, and hasIssues
jsonResult(result) ==
  [duplicatePackageErrors |-> result.duplicatePackageErrors,
   unusedExceptions |-> result.unusedExceptions,
   hasIssues |-> hasIssues(result)]

\* variant: the endpoint keeps the module graph's ids as tracked resolutions
CheckDuplicates_TracksGraph(tracked, graph) ==
  /\ apply(config, command)
  /\ command = "serve"
  /\ tracked \in Orderings(resolvedModuleIds)
  /\ \E allModuleIds \in {addGraphIds(tracked, graph)} :
     \E result \in {analyzeForDuplicates(platform, allModuleIds, config)} :
       /\ last' = [op |-> "checkDuplicates", graph |-> graph,
                   moduleIds |-> allModuleIds, result |-> result,
                   response |-> jsonResult(result), error |-> <<>>]
       /\ resolvedModuleIds' = Range(allModuleIds)
  /\ UNCHANGED <<other, platform, command, config, doppelgangerMap,
                 pending, firstRoot, firstFinal, redirected>>

\* a request to /__check-duplicates: the handler installed by configureServer,
\* which the host calls in serve mode on a plugin that applies; it answers
\* with the report and calls neither this.error nor anything that throws
CheckDuplicates(tracked, graph) ==
  /\ apply(config, command)
  /\ command = "serve"
  /\ tracked \in Orderings(resolvedModuleIds)
  /\ \E allModuleIds \in {addGraphIds(tracked, graph)} :
     \E result \in {analyzeForDuplicates(platform, allModuleIds, config)} :
       last' = [op |-> "checkDuplicates", graph |-> graph,
                moduleIds |-> allModuleIds, result |-> result,
                response |-> jsonResult(result), error |-> <<>>]
  /\ UNCHANGED <<other, platform, command, config, doppelgangerMap, resolvedModuleIds,
                 pending, firstRoot, firstFinal, redirected>>

\* a resolution in a session where apply() answered false: the host leaves
\* the plugin out, none of its hooks runs and the host's own resolution stands
\* (packageInfo is history: the package the resolution lies in)
HostResolve(resolved) ==
  /\ ~apply(config, command)
  /\ \E packageInfo \in {packageInfoOf[platform][resolved]} :
       /\ last' = [op |-> "hostResolve", resolved |-> resolved,
                   packageInfo |-> packageInfo, returned |-> NoPath]
       /\ firstRoot' = IF packageInfo.found /\ packageIdOf(packageInfo) \notin DOMAIN firstRoot
                       THEN firstRoot @@ (packageIdOf(packageInfo) :> packageInfo.rootPath)
                       ELSE firstRoot
  /\ UNCHANGED <<other, platform, command, config, doppelgangerMap, resolvedModuleIds,
                 pending, firstFinal, redirected>>

InitDev ==
  /\ platform \in Platforms
  /\ command \in {"build", "serve"}
  /\ config \in [deduplicateDoppelgangers : BOOLEAN, exceptions : DevPolicies,
                 enableInDev : BOOLEAN]
  /\ doppelgangerMap = [k \in {} |-> 0]
  /\ resolvedModuleIds = {}
  /\ pending = <<>>
  /\ last = [op |-> "none"]
  /\ firstRoot = [k \in {} |-> 0]
  /\ firstFinal = [k \in {} |-> 0]
  /\ redirected = {}
  /\ other = NewInstance

NextDev ==
  \/ \E source \in Sources : \E importer \in Importers(platform) :
       ResolveIdCall(source, importer)
  \/ \E i \in 1..Len(pending) : \E resolved \in DevResolvable(platform) \cup {NoPath} :
       ResolveIdResume(i, resolved)
  \/ \E resolved \in DevResolvable(platform) : HostResolve(resolved)
  \/ \E tracked \in Orderings(resolvedModuleIds) : \E graph \in GraphShapes(platform) :
       CheckDuplicates(tracked, graph)
  \/ \E bundle \in SessionBundles(platform) : GenerateBundle(bundle)
  \/ BuildEnd

SpecDev == InitDev /\ [][NextDev]_vars

\* --------------------------------------------------- two plugin instances
\* number of resolveId calls made on the second instance
MaxOther == 2

\* the files the resolver lands on in a session with two instances
TwoResolvableSegs ==
  { DirY1 \o <<"index.js">>,
    DirY2 \o <<"index.js">> }

TwoResolvable(p) == {HostId(p, f) : f \in TwoResolvableSegs}

\* variant: doppelgangerMap and resolvedModuleIds live at module level, so
\* every instance uses the ones the first instance uses
closureOf_ModuleLevel(instance) == 1

\* the doppelgangerMap and resolvedModuleIds the hooks of an instance close
\* over: the ones created by the call of duplicatePackagesPlugin that made it
closureOf(instance) == instance

\* resolveId of the second instance with the host's answer as input; the part
\* before the await touches no state, so the call is taken where it resumes
OtherResolveId(source, importer, resolved) ==
  /\ apply(config, command)
  /\ Len(other.history) < MaxOther
  /\ IF importer = NoPath \/ startsWithNUL(source)
     THEN /\ other' = [other EXCEPT
                         !.history = Append(@, <<source, importer, resolved>>),
                         !.returned = NoPath]
          /\ UNCHANGED <<doppelgangerMap, resolvedModuleIds>>
     ELSE \E own \in {closureOf(2) = 2} :
          \E r \in {afterResolve(platform, config,
                                 IF own THEN other.doppelgangerMap ELSE doppelgangerMap,
                                 IF own THEN other.resolvedModuleIds ELSE resolvedModuleIds,
                                 resolved)} :
            /\ other' =
                 [doppelgangerMap |-> IF own THEN r.map ELSE other.doppelgangerMap,
                  resolvedModuleIds |-> IF own THEN r.ids ELSE other.resolvedModuleIds,
                  history |-> Append(other.history, <<source, importer, resolved>>),
                  returned |-> r.returned]
            /\ doppelgangerMap' = IF own THEN doppelgangerMap ELSE r.map
            /\ resolvedModuleIds' = IF own THEN resolvedModuleIds ELSE r.ids
  /\ UNCHANGED <<platform, command, config, pending, last,
                 firstRoot, firstFinal, redirected>>

\* the calls made on the second instance: a bare import from a file with each
\* answer of the host, and a virtual module
OtherCalls(p) ==
  { <<<<"dep">>, HostId(p, DirApp \o <<"src", "main.js">>), resolved>> :
      resolved \in TwoResolvable(p) \cup {NoPath} }
  \cup { <<<<NUL, "virtual">>, HostId(p, DirApp \o <<"src", "main.js">>), NoPath>> }

InitTwo ==
  /\ platform \in Platforms
  /\ command = "build"
  /\ config \in [deduplicateDoppelgangers : BOOLEAN, exceptions : {[n \in {} |-> 0]},
                 enableInDev : {FALSE}]
  /\ doppelgangerMap = [k \in {} |-> 0]
  /\ resolvedModuleIds = {}
  /\ pending = <<>>
  /\ last = [op |-> "none"]
  /\ firstRoot = [k \in {} |-> 0]
  /\ firstFinal = [k \in {} |-> 0]
  /\ redirected = {}
  /\ other = NewInstance

NextTwo ==
  \/ \E source \in Sources : \E importer \in Importers(platform) :
       ResolveIdCall(source, importer)
  \/ \E i \in 1..Len(pending) : \E resolved \in TwoResolvable(platform) \cup {NoPath} :
       ResolveIdResume(i, resolved)
  \/ \E call \in OtherCalls(platform) : OtherResolveId(call[1], call[2], call[3])

SpecTwo == InitTwo /\ [][NextTwo]_vars

\* ------------------------------------- sessions that meet broken manifests
\* the files the host's resolver lands on: a package, a file under an
\* unparseable manifest inside that package, files under an unparseable and
\* an unreadable manifest with nothing above them, a file with no manifest
FaultyResolvableSegs ==
  { DirY3   \o <<"index.js">>,
    DirY3v  \o <<"index.js">>,
    DirBad  \o <<"index.js">>,
    DirLock \o <<"index.js">>,
    <<"tmp", nm, "orphan", "x.js">> }

FaultyResolvable(p) == {HostId(p, f) : f \in FaultyResolvableSegs}

\* the bundles of these sessions
FaultyBundles(p) ==
  { << [type |-> "chunk", modules |-> <<HostId(p, DirY1  \o <<"index.js">>),
                                         HostId(p, DirY3v \o <<"index.js">>)>>] >>,
    << [type |-> "chunk", modules |-> <<HostId(p, DirY1   \o <<"index.js">>),
                                         HostId(p, DirBad  \o <<"index.js">>),
                                         HostId(p, DirY3   \o <<"index.js">>)>>] >>,
    << [type |-> "chunk", modules |-> <<HostId(p, DirLock \o <<"index.js">>),
                                         HostId(p, <<"tmp", nm, "orphan", "x.js">>)>>] >> }

NextFaulty ==
  \/ \E source \in Sources : \E importer \in Importers(platform) :
       ResolveIdCall(source, importer)
  \/ \E i \in 1..Len(pending) : \E resolved \in FaultyResolvable(platform) \cup {NoPath} :
       ResolveIdResume(i, resolved)
  \/ \E bundle \in FaultyBundles(platform) : GenerateBundle(bundle)

SpecFaulty == Init /\ [][NextFaulty]_vars

\* ------------------------------------- the manifest search, call by call
\* getPackageJsonForPath followed one invocation at a time over several
\* manifest layouts. find-root is taken by its contract: the nearest
\* directory, starting with the path itself, that holds a package.json, the
\* top directory included. The invocations nest, one frame each; when the
\* stack is exhausted the engine throws a RangeError inside the innermost
\* try, whose catch returns undefined, and so does every frame above it.
DirTop == <<>>
DirN1  == <<"repo", nm, "nest">>
DirN2  == <<"repo", nm, "nest", "lib">>
DirN3  == <<"repo", nm, "nest", "lib", "cjs">>

Placeholder == [content |-> "object", name |-> Undef, version |-> Undef]

\* the manifest layouts explored, by name: the installation of the sessions,
\* a chain of placeholders under a package, a placeholder in the top
\* directory, and manifests that cannot be read, parsed, or hold null
Layouts ==
  [ installed |-> Manifests,
    chain |-> (DirN1 :> [content |-> "object", name |-> Undef, version |-> "3.0.0"]) @@
              (DirN2 :> Placeholder) @@
              (DirN3 :> Placeholder),
    top |-> (DirTop :> Placeholder) @@
            (DirN3  :> Placeholder),
    faulty |-> (DirN1 :> [content |-> "object", name |-> "nest", version |-> "3.0.0"]) @@
               (DirN2 :> [content |-> "unreadable", name |-> Undef, version |-> Undef]) @@
               (DirN3 :> Placeholder) @@
               (DirX1 :> [content |-> "null", name |-> Undef, version |-> Undef]) @@
               (DirX2 :> [content |-> "unparseable", name |-> Undef, version |-> Undef]) ]

\* the paths looked up
LookupSegs ==
  FileSegs \cup { DirN1 \o <<"index.js">>,
                  DirN2 \o <<"index.js">>,
                  DirN3 \o <<"index.js">>,
                  <<"x.js">> }

\* fs.existsSync(join(dir, 'package.json')) in a layout
existsSyncIn(layout, p, dir) == \E d \in DOMAIN layout : NativeDir(p, d) = dir

\* readFileSync + JSON.parse of the manifest in dir
readManifestIn(layout, p, dir) ==
  layout[CHOOSE d \in DOMAIN layout : NativeDir(p, d) = dir]

\* find-root in a layout
RECURSIVE findRootIn(_, _, _)
findRootIn(layout, p, start) ==
  IF start # <<>> /\ start[Len(start)] = sep(p)
    THEN findRootIn(layout, p, SubSeq(start, 1, Len(start) - 1))
  ELSE IF existsSyncIn(layout, p, start) THEN [ok |-> TRUE, root |-> start]
  ELSE IF start = <<>> THEN [ok |-> FALSE, root |-> <<>>]
  ELSE findRootIn(layout, p, popDir(p, start))

\* variant: a manifest that lacks either field is taken for a dummy
isPlaceholder_EitherMissing(packageJson) ==
  packageJson.name = Undef \/ packageJson.version = Undef

\* packageJson.name === undefined && packageJson.version === undefined
isPlaceholder(packageJson) ==
  packageJson.name = Undef /\ packageJson.version = Undef

\* one invocation of getPackageJsonForPath up to its return or its call of
\* itself: findRoot or readFileSync or JSON.parse throwing, and a manifest
\* that is null, give undefined
invocation(layout, p, path) ==
  LET r == findRootIn(layout, p, normalize(p, path))
  IN  IF ~r.ok THEN [recurse |-> FALSE, root |-> <<>>, result |-> NotFound]
      ELSE LET packageJson == readManifestIn(layout, p, r.root)
           IN  IF packageJson.content # "object"
                 THEN [recurse |-> FALSE, root |-> r.root, result |-> NotFound]
               ELSE IF isPlaceholder(packageJson)
                 THEN [recurse |-> TRUE, root |-> r.root, result |-> NotFound]
               ELSE [recurse |-> FALSE, root |-> r.root,
                     result |-> [found |-> TRUE, name |-> packageJson.name,
                                 version |-> packageJson.version, rootPath |-> r.root]]

\* the texts getPackageJsonForPath is called with: the paths looked up and
\* the directories above the manifests
LookupTexts(p) ==
  {HostId(p, segs) : segs \in LookupSegs} \cup
  {parentDir(p, NativeDir(p, d)) : d \in UNION {DOMAIN Layouts[l] : l \in DOMAIN Layouts}}

\* invocation on the texts of the model, tabulated
invocationOf ==
  [l \in DOMAIN Layouts |->
    [p \in Platforms |-> [t \in LookupTexts(p) |-> invocation(Layouts[l], p, t)]]]

\* a call of getPackageJsonForPath from outside, one per behaviour
LookupStart(layout, segs) ==
  /\ last.op = "none"
  /\ last' = [op |-> "lookup", layout |-> layout, segs |-> segs,
              path |-> HostId(platform, segs), at |-> HostId(platform, segs),
              depth |-> 0, read |-> <<>>, done |-> FALSE, result |-> NotFound,
              threw |-> FALSE]
  /\ UNCHANGED <<other, platform, command, config, doppelgangerMap, resolvedModuleIds,
                 pending, firstRoot, firstFinal, redirected>>

\* variant: the search as a loop that needs no frame for the next directory
LookupEnter_NoFrame ==
  /\ last.op = "lookup" /\ ~last.done
  /\ \E i \in {invocationOf[last.layout][platform][last.at]} :
       last' = [last EXCEPT !.at = IF i.recurse THEN parentDir(platform, i.root) ELSE @,
                            !.read = setAdd(@, i.root),
                            !.done = ~i.recurse,
                            !.result = i.result]
  /\ UNCHANGED <<other, platform, command, config, doppelgangerMap, resolvedModuleIds,
                 pending, firstRoot, firstFinal, redirected>>

\* the next invocation of getPackageJsonForPath runs in a frame of its own
LookupEnter ==
  /\ last.op = "lookup" /\ ~last.done
  /\ last.depth < MaxStack
  /\ \E i \in {invocationOf[last.layout][platform][last.at]} :
       last' = [last EXCEPT !.at = IF i.recurse THEN parentDir(platform, i.root) ELSE @,
                            !.depth = IF i.recurse THEN @ + 1 ELSE @,
                            !.read = Append(@, i.root),
                            !.done = ~i.recurse,
                            !.result = i.result]
  /\ UNCHANGED <<other, platform, command, config, doppelgangerMap, resolvedModuleIds,
                 pending, firstRoot, firstFinal, redirected>>

\* no room for another frame: the RangeError is caught and undefined returned
LookupOverflow ==
  /\ last.op = "lookup" /\ ~last.done
  /\ last.depth = MaxStack
  /\ last' = [last EXCEPT !.done = TRUE, !.result = NotFound, !.threw = TRUE]
  /\ UNCHANGED <<other, platform, command, config, doppelgangerMap, resolvedModuleIds,
                 pending, firstRoot, firstFinal, redirected>>

InitLookup ==
  /\ platform \in Platforms
  /\ command = "build"
  /\ config = [deduplicateDoppelgangers |-> TRUE, exceptions |-> [n \in {} |-> 0],
               enableInDev |-> FALSE]
  /\ doppelgangerMap = [k \in {} |-> 0]
  /\ resolvedModuleIds = {}
  /\ pending = <<>>
  /\ last = [op |-> "none"]
  /\ firstRoot = [k \in {} |-> 0]
  /\ firstFinal = [k \in {} |-> 0]
  /\ redirected = {}
  /\ other = NewInstance

NextLookup ==
  \/ \E layout \in DOMAIN Layouts : \E segs \in LookupSegs : LookupStart(layout, segs)
  \/ LookupEnter
  \/ LookupOverflow

SpecLookup == InitLookup /\ [][NextLookup]_vars

\* a call, once made, runs to its return: the function is synchronous
SpecLookupFair == SpecLookup /\ WF_vars(LookupEnter) /\ WF_vars(LookupOverflow)

\* ================================================================== claims
\* a native directory as the host spells it in a module id
hostSpelling(dir) ==
  [i \in 1..Len(dir) |-> IF dir[i] = sep(platform) THEN "/" ELSE dir[i]]

\* the last hook was a resolveId that found the owning package of its resolution
resolvedInPackage == last.op = "resolveId" /\ last.packageInfo.found

\* the root of the package that owns a path
rootOf(path) == getPackageJsonForPath(platform, path).rootPath

\* C1: with deduplicateDoppelgangers on, a resolution that lands in a root
\* whose name@version is registered under another root returns the path
\* rewritten under the registered canonical root (canonical root, then the
\* same subpath), and every resolution of a name@version ends in one single
\* root, the canonical one.
C1_RedirectedToCanonical ==
  (config.deduplicateDoppelgangers /\ resolvedInPackage) =>
    LET pid == packageIdOf(last.packageInfo)
        root == last.packageInfo.rootPath
    IN  /\ pid \in DOMAIN doppelgangerMap
        /\ root # doppelgangerMap[pid].resolveToPath =>
             /\ SubSeq(last.resolved, 1, Len(root)) = hostSpelling(root)
             /\ last.returned =
                  hostSpelling(doppelgangerMap[pid].resolveToPath)
                    \o SubSeq(last.resolved, Len(root) + 1, Len(last.resolved))
        /\ rootOf(finalPath(last.resolved, last.returned))
             = doppelgangerMap[pid].resolveToPath

C1_Witness ==
  /\ config.deduplicateDoppelgangers
  /\ resolvedInPackage
  /\ last.packageInfo.rootPath
       # doppelgangerMap[packageIdOf(last.packageInfo)].resolveToPath
  /\ last.returned # NoPath
  /\ last.returned # last.resolved

\* C2: identities of one name and different versions are never merged: all
\* roots of a registry entry hold manifests of one name and one version, the
\* entry's, and a rewritten path lies in a package of the version (and name)
\* the host resolved to.
C2_VersionsNeverMerged ==
  /\ \A k \in DOMAIN doppelgangerMap : \A root \in doppelgangerMap[k].paths :
       /\ existsSync(platform, root)
       /\ k = <<propertyKey(readManifest(platform, root).name), "@",
                propertyKey(readManifest(platform, root).version)>>
       /\ readManifest(platform, root).version
            = readManifest(platform, doppelgangerMap[k].resolveToPath).version
  /\ (last.op = "resolveId" /\ last.returned # NoPath) =>
       /\ getPackageJsonForPath(platform, last.returned).version = last.packageInfo.version
       /\ getPackageJsonForPath(platform, last.returned).name = last.packageInfo.name

C2_Witness ==
  \E k1 \in DOMAIN doppelgangerMap : \E k2 \in DOMAIN doppelgangerMap :
    /\ k1 # k2
    /\ readManifest(platform, doppelgangerMap[k1].resolveToPath).name
         = readManifest(platform, doppelgangerMap[k2].resolveToPath).name
    /\ Cardinality(doppelgangerMap[k1].paths) > 1

\* C3: a resolveId call made while the registry was still empty (so that its
\* name@version was unregistered when it reached its await) and resumed in
\* any order with other calls never makes a second canonical root: the entry's
\* canonical root is the one root registered first, and the call either is
\* that first one (null returned) or returns the path under that root.
C3_OneCanonicalUnderInterleaving ==
  (config.deduplicateDoppelgangers /\ resolvedInPackage /\ last.fresh) =>
    LET pid == packageIdOf(last.packageInfo)
        root == last.packageInfo.rootPath
    IN  /\ pid \in DOMAIN doppelgangerMap
        /\ pid \in DOMAIN firstRoot
        /\ doppelgangerMap[pid].resolveToPath = firstRoot[pid]
        /\ root \in doppelgangerMap[pid].paths
        /\ IF root = firstRoot[pid]
           THEN last.returned = NoPath
           ELSE /\ last.returned # NoPath
                /\ rootOf(last.returned) = firstRoot[pid]

\* two calls were waiting together, the one resumed first registered its
\* root, and the last hook is the other one, redirected
C3_Witness ==
  /\ config.deduplicateDoppelgangers
  /\ resolvedInPackage
  /\ last.fresh
  /\ last.returned # NoPath
  /\ rootOf(last.returned) = firstRoot[packageIdOf(last.packageInfo)]

\* C4: the canonical root of an entry is the root of the first resolution
\* processed for its name@version, and no step changes it or removes the entry.
C4_CanonicalFirstAndStable ==
  /\ [](\A k \in DOMAIN doppelgangerMap :
          k \in DOMAIN firstRoot /\ doppelgangerMap[k].resolveToPath = firstRoot[k])
  /\ [][\A k \in DOMAIN doppelgangerMap :
          k \in DOMAIN doppelgangerMap'
          /\ doppelgangerMap'[k].resolveToPath = doppelgangerMap[k].resolveToPath]_vars

\* a later resolution of another root of the name@version has been processed
C4_Witness ==
  \E k \in DOMAIN doppelgangerMap :
    /\ Cardinality(doppelgangerMap[k].paths) > 1
    /\ doppelgangerMap[k].resolveToPath = firstRoot[k]
    /\ last.op = "buildEnd"

\* C5: resolving the same module (same name, version and root) again gives
\* the final path its first resolution gave, whatever was resolved in between.
C5_Idempotent ==
  resolvedInPackage =>
    /\ last.resolved \in DOMAIN firstFinal
    /\ finalPath(last.resolved, last.returned) = firstFinal[last.resolved]

C5_Witness ==
  /\ resolvedInPackage
  /\ last.repeat
  /\ last.returned # NoPath
  /\ Cardinality(DOMAIN firstFinal) > 2

\* C6: without deduplicateDoppelgangers resolveId returns no rewritten path
\* and the registry stays empty.
C6_DisabledNeverRewrites ==
  ~config.deduplicateDoppelgangers =>
    /\ DOMAIN doppelgangerMap = {}
    /\ last.op = "resolveId" => last.returned = NoPath

\* two copies of pkgY@1.0.0 under different roots were both resolved
C6_Witness ==
  /\ ~config.deduplicateDoppelgangers
  /\ resolvedInPackage
  /\ last.resolved = HostId(platform, DirY2 \o <<"index.js">>)
  /\ HostId(platform, DirY1 \o <<"index.js">>) \in resolvedModuleIds
  /\ finalPath(last.resolved, last.returned) = last.resolved

\* C7: buildEnd reports, for exactly the entries with more than one observed
\* root, the number of observed roots minus one, which is the number of
\* distinct roots of that name@version whose resolution was redirected.
C7_EliminatedCount ==
  last.op = "buildEnd" =>
    /\ \A k \in DOMAIN doppelgangerMap :
         LET n == Cardinality({pr \in redirected : pr[1] = k})
         IN  /\ n = Cardinality(doppelgangerMap[k].paths) - 1
             /\ (n > 0) <=> ([packageId |-> k, eliminated |-> n] \in last.lines)
    /\ \A line \in last.lines :
         /\ line.packageId \in DOMAIN doppelgangerMap
         /\ line.eliminated = Cardinality(doppelgangerMap[line.packageId].paths) - 1
         /\ line.eliminated >= 1

\* pkgY@1.0.0 resolved at dep1 and then at dep2: one doppelganger eliminated
C7_Witness ==
  /\ last.op = "buildEnd"
  /\ [packageId |-> <<"pkgY", "@", "1.0.0">>, eliminated |-> 1] \in last.lines
  /\ doppelgangerMap[<<"pkgY", "@", "1.0.0">>].resolveToPath = NativeDir(platform, DirY1)
  /\ NativeDir(platform, DirY2) \in doppelgangerMap[<<"pkgY", "@", "1.0.0">>].paths

\* the last hook analysed a sequence of module ids
analysed == last.op \in {"analyze", "generateBundle"}

\* the package names of the file system and of the policies
PackageNames == {"app", "pkgX", "pkgY", "pkgZ", "priv"}

\* the versions of a package among the module ids that lie under node_modules
\* and have an owning manifest
observedVersions(moduleIds, name) ==
  { packageInfoOf[platform][moduleIds[i]].version :
      i \in { j \in 1..Len(moduleIds) :
                /\ includesNodeModules(moduleIds[j])
                /\ packageInfoOf[platform][moduleIds[j]].found
                /\ packageInfoOf[platform][moduleIds[j]].name = name } }

\* the roots of a package among the module ids
observedRoots(moduleIds, name) ==
  { packageInfoOf[platform][moduleIds[i]].rootPath :
      i \in { j \in 1..Len(moduleIds) :
                /\ packageInfoOf[platform][moduleIds[j]].found
                /\ packageInfoOf[platform][moduleIds[j]].name = name } }

\* the indices of the errors reported for a package
errorsFor(name) ==
  { i \in 1..Len(last.result.duplicatePackageErrors) :
      last.result.duplicatePackageErrors[i].packageName = name }

\* C8: a package observed with exactly one distinct version is in no
\* duplicate error, however many roots of that version the module set holds
\* and whatever deduplicateDoppelgangers and the exception policy are.
C8_SingleVersionNeverReported ==
  analysed =>
    \A name \in PackageNames :
      Cardinality(observedVersions(last.moduleIds, name)) = 1 => errorsFor(name) = {}

\* two roots of pkgY@1.0.0 analysed with deduplication off
C8_Witness ==
  /\ analysed
  /\ ~config.deduplicateDoppelgangers
  /\ Cardinality(observedRoots(last.moduleIds, "pkgY")) = 2
  /\ Cardinality(observedVersions(last.moduleIds, "pkgY")) = 1
  /\ errorsFor("pkgY") = {}

\* C9: a duplicate error is reported for a package exactly when it was
\* observed with more than one version and either has no exception or has
\* more versions than its exception's maximum; the error carries all the
\* versions observed.
C9_ErrorIffOverThreshold ==
  analysed =>
    \A name \in PackageNames :
      LET obs == observedVersions(last.moduleIds, name)
      IN  /\ (errorsFor(name) # {}) <=>
               /\ Cardinality(obs) > 1
               /\ \/ name \notin DOMAIN config.exceptions
                  \/ Cardinality(obs) > config.exceptions[name]
          /\ \A i \in errorsFor(name) :
               Range(last.result.duplicatePackageErrors[i].versions) = obs

\* pkgY observed at two versions with a maximum of two: let through
C9_Witness ==
  /\ analysed
  /\ "pkgY" \in DOMAIN config.exceptions
  /\ config.exceptions["pkgY"] = 2
  /\ Cardinality(observedVersions(last.moduleIds, "pkgY")) = 2
  /\ errorsFor("pkgY") = {}

\* C10: pkgX at exactly two versions (nothing else duplicated) with
\* exceptions = {pkgX: {maxAllowedVersionCount: 2}}: no duplicate error, no
\* unused exception, and generateBundle raises no error.
C10_ExceptionCoversTwoVersions ==
  ( /\ analysed
    /\ config.exceptions = ("pkgX" :> 2)
    /\ Cardinality(observedVersions(last.moduleIds, "pkgX")) = 2
    /\ \A name \in PackageNames \ {"pkgX"} :
         Cardinality(observedVersions(last.moduleIds, name)) <= 1 ) =>
    /\ last.result.duplicatePackageErrors = <<>>
    /\ last.result.unusedExceptions = {}
    /\ last.op = "generateBundle" => (~last.hasErrors /\ last.error = <<>>)

C10_Witness ==
  /\ last.op = "generateBundle"
  /\ config.exceptions = ("pkgX" :> 2)
  /\ observedVersions(last.moduleIds, "pkgX") = {"1.0.0", "2.0.0"}
  /\ \A name \in PackageNames \ {"pkgX"} : observedVersions(last.moduleIds, name) = {}
  /\ ~last.hasErrors

\* the exceptions whose package no analysed module belongs to
neverObserved ==
  { name \in DOMAIN config.exceptions : observedVersions(last.moduleIds, name) = {} }

\* the packages observed with more versions than the policy lets through
overThreshold ==
  { name \in PackageNames :
      /\ Cardinality(observedVersions(last.moduleIds, name)) > 1
      /\ \/ name \notin DOMAIN config.exceptions
         \/ Cardinality(observedVersions(last.moduleIds, name)) > config.exceptions[name] }

\* C11: every configured exception whose package is never observed in the
\* analysed module set is in unusedExceptions, and then there are issues
\* (generateBundle raises its error).
C11_UnobservedExceptionUnused ==
  analysed =>
    \A name \in neverObserved :
      /\ name \in last.result.unusedExceptions
      /\ Len(last.result.duplicatePackageErrors) > 0
           \/ Cardinality(last.result.unusedExceptions) > 0
      /\ last.op = "generateBundle" => (last.hasErrors /\ Len(last.errors) = 1)

\* exceptions = {pkgZ: 3}, pkgZ in no module, and nothing duplicated
C11_Witness ==
  /\ last.op = "generateBundle"
  /\ config.exceptions = ("pkgZ" :> 3)
  /\ last.moduleIds # <<>>
  /\ overThreshold = {}
  /\ last.result.unusedExceptions = {"pkgZ"}
  /\ last.hasErrors

\* C12: an exception for a package observed with exactly one version is in
\* unusedExceptions and fails the build, and no duplicate error is raised for
\* the package.
C12_SingleVersionExceptionUnused ==
  analysed =>
    \A name \in DOMAIN config.exceptions :
      Cardinality(observedVersions(last.moduleIds, name)) = 1 =>
        /\ name \in last.result.unusedExceptions
        /\ errorsFor(name) = {}
        /\ last.op = "generateBundle" => last.hasErrors

\* C13: generateBundle raises its fatal error exactly when the modules of the
\* bundle's chunks hold a package over its threshold or the policy holds an
\* exception for a package none of them belongs to, that is, exactly when
\* the analysis has a duplicate error or an unused exception.
C13_FatalIffIssues ==
  last.op = "generateBundle" =>
    /\ (Len(last.errors) > 0) <=> (overThreshold # {} \/ neverObserved # {})
    /\ (Len(last.errors) > 0) <=>
         \/ Len(last.result.duplicatePackageErrors) > 0
         \/ Cardinality(last.result.unusedExceptions) > 0

\* no exceptions and a bundle with two versions of pkgX: the build fails
C13_Witness ==
  /\ last.op = "generateBundle"
  /\ config.exceptions = [n \in {} |-> 0]
  /\ Cardinality(observedVersions(last.moduleIds, "pkgX")) = 2
  /\ Len(last.errors) = 1
  /\ last.hasErrors

\* the package names in the duplicates part and the names in the unused part
\* of a message
namesInMessage(message, part) ==
  UNION { IF part = "duplicates"
          THEN { message[i].details[j].packageName : j \in 1..Len(message[i].details) }
          ELSE message[i].details :
          i \in { k \in 1..Len(message) : message[k].part = part } }

\* C14: one generateBundle calls this.error at most once, and when there are
\* both duplicate errors and unused exceptions the one message names every
\* duplicated package and every unused exception.
C14_OneCombinedError ==
  last.op = "generateBundle" =>
    /\ Len(last.errors) <= 1
    /\ (overThreshold # {} /\ neverObserved # {}) =>
         /\ Len(last.errors) = 1
         /\ namesInMessage(last.errors[1], "duplicates") = overThreshold
         /\ namesInMessage(last.errors[1], "unused") = neverObserved

\* pkgX duplicated while the exception for pkgZ is unused
C14_Witness ==
  /\ last.op = "generateBundle"
  /\ config.exceptions = ("pkgZ" :> 3)
  /\ overThreshold = {"pkgX"}
  /\ neverObserved = {"pkgZ"}
  /\ Len(last.errors) = 1
  /\ Len(last.errors[1]) = 2

\* C15: hasIssues is true exactly when duplicatePackageErrors or
\* unusedExceptions is non-empty, in the response of /__check-duplicates and
\* in generateBundle's decision to fail.
C15_HasIssuesDerived ==
  /\ last.op = "checkDuplicates" =>
       /\ last.response.hasIssues <=>
            \/ Len(last.response.duplicatePackageErrors) > 0
            \/ last.response.unusedExceptions # {}
       /\ last.response.duplicatePackageErrors = last.result.duplicatePackageErrors
       /\ last.response.unusedExceptions = last.result.unusedExceptions
  /\ last.op = "generateBundle" =>
       last.hasErrors <=>
         \/ Len(last.result.duplicatePackageErrors) > 0
         \/ last.result.unusedExceptions # {}

\* a report with no duplicate and one unused exception
C15_Witness ==
  /\ last.op = "checkDuplicates"
  /\ last.response.duplicatePackageErrors = <<>>
  /\ last.response.unusedExceptions = {"pkgZ"}
  /\ last.response.hasIssues

\* C16: a duplicate error carries maxAllowedVersionCount exactly when the
\* policy has an exception for its package, the value is the exception's and
\* is below the number of versions found; the message line of the error has
\* the note (max N, found M) in exactly that case.
C16_MaxOnlyWithException ==
  analysed =>
    \A i \in 1..Len(last.result.duplicatePackageErrors) :
      LET err == last.result.duplicatePackageErrors[i]
          found == Cardinality(observedVersions(last.moduleIds, err.packageName))
      IN  /\ (err.maxAllowedVersionCount # <<>>)
               <=> (err.packageName \in DOMAIN config.exceptions)
          /\ err.maxAllowedVersionCount # <<>> =>
               /\ err.maxAllowedVersionCount = <<config.exceptions[err.packageName]>>
               /\ found > err.maxAllowedVersionCount[1]
          /\ last.op = "generateBundle" =>
               /\ Len(last.errors) = 1
               /\ last.errors[1][1].part = "duplicates"
               /\ last.errors[1][1].details[i].packageName = err.packageName
               /\ last.errors[1][1].details[i].exceptionNote =
                    IF err.packageName \in DOMAIN config.exceptions
                    THEN <<config.exceptions[err.packageName], found>>
                    ELSE <<>>

\* pkgX with a maximum of one found at two versions
C16_Witness ==
  /\ last.op = "generateBundle"
  /\ "pkgX" \in DOMAIN config.exceptions
  /\ config.exceptions["pkgX"] = 1
  /\ \E i \in errorsFor("pkgX") :
       last.errors[1][1].details[i].exceptionNote = <<1, 2>>

C18_DevDedupWithoutEnableInDev ==
  ( /\ command = "serve"
    /\ config = [deduplicateDoppelgangers |-> TRUE, exceptions |-> [n \in {} |-> 0],
                 enableInDev |-> FALSE]
    /\ last.op \in {"resolveId", "hostResolve"}
    /\ last.resolved # NoPath
    /\ includesNodeModules(last.resolved)
    /\ last.packageInfo.found ) =>
    rootOf(finalPath(last.resolved, last.returned))
      = firstRoot[packageIdOf(last.packageInfo)]

\* the module ids of the graph's nodes that have one
graphIds(graph) == { graph[i].id : i \in { j \in 1..Len(graph) : graph[j].id # NoPath } }

\* C19: a query of /__check-duplicates answers with duplicatePackageErrors,
\* unusedExceptions and hasIssues of the analysis of the tracked module ids
\* together with the ids of the host's module graph, raises no error even
\* when hasIssues is true, and leaves the registry, the tracked ids and the
\* waiting resolutions as they were.
C19_ReportNonFatalReadOnly ==
  /\ [](last.op = "checkDuplicates" =>
          /\ Range(last.moduleIds) = resolvedModuleIds \cup graphIds(last.graph)
          /\ { last.response.duplicatePackageErrors[i].packageName :
                 i \in 1..Len(last.response.duplicatePackageErrors) } = overThreshold
          /\ \A i \in 1..Len(last.response.duplicatePackageErrors) :
               Range(last.response.duplicatePackageErrors[i].versions)
                 = observedVersions(last.moduleIds,
                                    last.response.duplicatePackageErrors[i].packageName)
          /\ last.response.unusedExceptions = neverObserved
          /\ last.response.hasIssues <=> (overThreshold # {} \/ neverObserved # {})
          /\ last.error = <<>>)
  /\ [][(last'.op = "checkDuplicates" /\ last' # last) =>
          UNCHANGED <<doppelgangerMap, resolvedModuleIds, pending, config>>]_vars

\* a query that reports issues while resolutions have been tracked and
\* registered and the module graph holds an id that was never tracked
C19_Witness ==
  /\ last.op = "checkDuplicates"
  /\ last.response.hasIssues
  /\ Len(last.response.duplicatePackageErrors) > 0
  /\ resolvedModuleIds # {}
  /\ DOMAIN doppelgangerMap # {}
  /\ graphIds(last.graph) \ resolvedModuleIds # {}

\* what an instance that is the only one holds and returns after the calls
\* of a history
RECURSIVE replay(_, _)
replay(history, acc) ==
  IF history = <<>> THEN acc
  ELSE LET call == Head(history)
           r == afterResolve(platform, config, acc.doppelgangerMap,
                             acc.resolvedModuleIds, call[3])
       IN  replay(Tail(history),
                  IF call[2] = NoPath \/ startsWithNUL(call[1])
                  THEN [acc EXCEPT !.returned = NoPath]
                  ELSE [acc EXCEPT !.doppelgangerMap = r.map,
                                   !.resolvedModuleIds = r.ids,
                                   !.returned = r.returned])

alone == replay(other.history, NewInstance)

\* C20: two instances have a registry and a tracked set each: a hook of one
\* instance changes nothing of the other, and what the second instance holds
\* and returns (hence its eliminated counts and its report) is what it would
\* hold and return if the first instance did not exist, whatever the first
\* has resolved.
C20_InstancesIndependent ==
  /\ [](/\ other.doppelgangerMap = alone.doppelgangerMap
        /\ other.resolvedModuleIds = alone.resolvedModuleIds
        /\ other.returned = alone.returned
        /\ buildEndLines(config, other.doppelgangerMap)
             = buildEndLines(config, alone.doppelgangerMap))
  /\ [][other' # other =>
          UNCHANGED <<doppelgangerMap, resolvedModuleIds, pending, last>>]_vars
  /\ [][<<doppelgangerMap, resolvedModuleIds, pending, last>>'
          # <<doppelgangerMap, resolvedModuleIds, pending, last>> => other' = other]_vars

\* the two instances saw the copies of pkgY@1.0.0 in opposite orders and
\* hold opposite canonical roots
C20_Witness ==
  /\ <<"pkgY", "@", "1.0.0">> \in DOMAIN doppelgangerMap
  /\ <<"pkgY", "@", "1.0.0">> \in DOMAIN other.doppelgangerMap
  /\ doppelgangerMap[<<"pkgY", "@", "1.0.0">>].resolveToPath = NativeDir(platform, DirY1)
  /\ other.doppelgangerMap[<<"pkgY", "@", "1.0.0">>].resolveToPath
       = NativeDir(platform, DirY2)
  /\ Cardinality(doppelgangerMap[<<"pkgY", "@", "1.0.0">>].paths) = 2
  /\ other.returned # NoPath

\* a step in which a resolveId call returns: one that was waiting, or one
\* that returned before asking the host
resolveIdReturns ==
  /\ last'.op = "resolveId"
  /\ Len(pending') < Len(pending) \/ (last' # last /\ ~last'.hostCalled)

\* C21: a resolveId call with no importer, with a specifier that starts with
\* the NUL character, with a failed host resolution or with a host resolution
\* outside node_modules returns null and leaves the registry and the tracked
\* ids as they were; in the first two cases the host is not asked.
C21_PassThroughUnchanged ==
  [][( /\ resolveIdReturns
       /\ \/ last'.importer = NoPath
          \/ startsWithNUL(last'.source)
          \/ last'.resolved = NoPath
          \/ ~includesNodeModules(last'.resolved) ) =>
       /\ last'.returned = NoPath
       /\ UNCHANGED <<doppelgangerMap, resolvedModuleIds>>
       /\ (last'.importer = NoPath \/ startsWithNUL(last'.source)) =>
            (~last'.hostCalled /\ UNCHANGED pending)]_vars

\* a resolution to the application's own source while the registry and the
\* tracked ids hold something
C21_Witness ==
  /\ last.op = "resolveId"
  /\ last.hostCalled
  /\ last.resolved = HostId(platform, DirApp \o <<"src", "main.js">>)
  /\ last.returned = NoPath
  /\ DOMAIN doppelgangerMap # {}
  /\ resolvedModuleIds # {}

\* C22: the id of every host resolution under node_modules that a resolveId
\* call got is among the tracked ids when the call returns, with or without
\* an owning manifest, with or without deduplication, canonical or redirected.
C22_ResolutionTracked ==
  ( /\ last.op = "resolveId"
    /\ last.hostCalled
    /\ last.resolved # NoPath
    /\ includesNodeModules(last.resolved) ) =>
    last.resolved \in resolvedModuleIds

\* a resolution under node_modules with no owning manifest
C22_Witness ==
  /\ last.op = "resolveId"
  /\ last.resolved = HostId(platform, <<"tmp", nm, "orphan", "x.js">>)
  /\ ~last.packageInfo.found
  /\ last.resolved \in resolvedModuleIds

\* C23 as stated: the tracked ids are paths the build was wired to: a tracked
\* id that lies in a registered package lies under the canonical root of it.
C23_TrackedIsCanonical ==
  config.deduplicateDoppelgangers =>
    \A id \in resolvedModuleIds :
      (packageInfoOf[platform][id].found
       /\ packageIdOf(packageInfoOf[platform][id]) \in DOMAIN doppelgangerMap) =>
        packageInfoOf[platform][id].rootPath
          = doppelgangerMap[packageIdOf(packageInfoOf[platform][id])].resolveToPath

\* C23 amended: when a resolution is redirected, the id tracked for it is the
\* host's resolution, under the doppelganger root; it lies in a package of the
\* same name and version as the path returned, and the path returned is
\* tracked only if the host itself resolved to it at some point.
C23_TrackedIsHostResolution ==
  (last.op = "resolveId" /\ last.returned # NoPath) =>
    /\ last.resolved \in resolvedModuleIds
    /\ last.returned # last.resolved
    /\ getPackageJsonForPath(platform, last.returned).name = last.packageInfo.name
    /\ getPackageJsonForPath(platform, last.returned).version = last.packageInfo.version
    /\ last.returned \in resolvedModuleIds => last.returned \in DOMAIN firstFinal

\* a redirected resolution whose returned path the host never resolved to
C23_Witness ==
  /\ last.op = "resolveId"
  /\ last.returned # NoPath
  /\ last.resolved \in resolvedModuleIds
  /\ last.returned \notin resolvedModuleIds

\* C24: the path returned for a redirected resolution is the canonical root
\* followed by the subpath the host's path has below its own package root:
\* same length of subpath, same text, nothing else changed, and it is never
\* the host's path.
C24_SubpathPreserved ==
  (last.op = "resolveId" /\ last.returned # NoPath) =>
    LET root == hostSpelling(last.packageInfo.rootPath)
        canonical == hostSpelling(
                       doppelgangerMap[packageIdOf(last.packageInfo)].resolveToPath)
        subpath == SubSeq(last.resolved, Len(root) + 1, Len(last.resolved))
    IN  /\ last.resolved = root \o subpath
        /\ last.returned = canonical \o subpath
        /\ last.returned # last.resolved
        /\ \A i \in 1..Len(last.returned) : last.returned[i] # "\\"

\* a redirected resolution of a file in a subdirectory of the package
C24_Witness ==
  /\ last.op = "resolveId"
  /\ last.returned # NoPath
  /\ last.resolved = HostId(platform, DirY1e \o <<"index.js">>)
  /\ last.returned = HostId(platform, DirY2 \o <<"esm", "index.js">>)

\* C25: a resolution whose package root is the registered canonical root of
\* its name@version returns null and leaves the registry as it was.
C25_CanonicalUntouched ==
  [][( /\ resolveIdReturns
       /\ config.deduplicateDoppelgangers
       /\ last'.packageInfo.found
       /\ packageIdOf(last'.packageInfo) \in DOMAIN doppelgangerMap
       /\ doppelgangerMap[packageIdOf(last'.packageInfo)].resolveToPath
            = last'.packageInfo.rootPath ) =>
       /\ last'.returned = NoPath
       /\ UNCHANGED doppelgangerMap]_vars

\* the canonical copy resolved again after a doppelganger was redirected
C25_Witness ==
  /\ last.op = "resolveId"
  /\ last.repeat
  /\ last.packageInfo.found
  /\ last.returned = NoPath
  /\ packageIdOf(last.packageInfo) \in DOMAIN doppelgangerMap
  /\ doppelgangerMap[packageIdOf(last.packageInfo)].resolveToPath
       = last.packageInfo.rootPath
  /\ Cardinality(doppelgangerMap[packageIdOf(last.packageInfo)].paths) > 1

\* C26: no step of a session (resolveId, generateBundle, buildEnd, a query of
\* the report) removes a registry entry, a root of an entry's observed roots
\* or a tracked id.
C26_OnlyGrow ==
  [][/\ \A k \in DOMAIN doppelgangerMap :
          /\ k \in DOMAIN doppelgangerMap'
          /\ doppelgangerMap[k].paths \subseteq doppelgangerMap'[k].paths
     /\ resolvedModuleIds \subseteq resolvedModuleIds']_vars

\* buildEnd has run on a registry with an entry of two roots
C26_Witness ==
  /\ last.op = "buildEnd"
  /\ \E k \in DOMAIN doppelgangerMap : Cardinality(doppelgangerMap[k].paths) > 1
  /\ Cardinality(resolvedModuleIds) > 1
  /\ last.lines # {}

\* the calls of this.error a hook made
raised(l) == IF "errors" \in DOMAIN l THEN l.errors ELSE <<>>

\* the versions of a package among the tracked ids
trackedVersions(name) ==
  { packageInfoOf[platform][id].version :
      id \in { i \in resolvedModuleIds : /\ packageInfoOf[platform][i].found
                                          /\ packageInfoOf[platform][i].name = name } }

\* C27: the fatal error of the duplicate gate is raised by generateBundle
\* alone: a hook that raised it is generateBundle, and resolveId, buildEnd
\* and the report raise nothing whatever has been resolved.
C27_GateOnlyInGenerateBundle ==
  /\ Len(raised(last)) > 0 => last.op = "generateBundle"
  /\ last.op \in {"resolveId", "buildEnd", "checkDuplicates", "hostResolve"} =>
       raised(last) = <<>>

\* buildEnd after two versions of pkgY were resolved, against a policy that
\* lets one through
C27_Witness ==
  /\ last.op = "buildEnd"
  /\ command = "build"
  /\ config.exceptions = ("pkgY" :> 1) @@ ("pkgZ" :> 3)
  /\ Cardinality(trackedVersions("pkgY")) = 2
  /\ raised(last) = <<>>

\* a sequence with its elements at i and i + 1 exchanged
swapped(seq, i) ==
  [k \in 1..Len(seq) |-> IF k = i THEN seq[i + 1] ELSE IF k = i + 1 THEN seq[i] ELSE seq[k]]

\* what a result says, without the order it says it in
contents(result) ==
  [errors |-> { [packageName |-> result.duplicatePackageErrors[i].packageName,
                 versions |-> Range(result.duplicatePackageErrors[i].versions),
                 maxAllowedVersionCount |->
                   result.duplicatePackageErrors[i].maxAllowedVersionCount] :
                i \in 1..Len(result.duplicatePackageErrors) },
   unusedExceptions |-> result.unusedExceptions]

\* C28: the analysis of a sequence of module ids and the analysis of the same
\* sequence with two neighbours exchanged (hence of any reordering of it)
\* report the same packages, with the same set of versions and the same
\* threshold each, and the same unused exceptions.
C28_OrderIndependent ==
  analysed =>
    \A i \in 1..(Len(last.moduleIds) - 1) :
      contents(analyzeForDuplicates(platform, swapped(last.moduleIds, i), config))
        = contents(last.result)

\* a reordering that changes the order in which the versions are listed
C28_Witness ==
  /\ analysed
  /\ Len(last.moduleIds) = 3
  /\ Len(last.result.duplicatePackageErrors) > 0
  /\ \E i \in 1..2 :
       analyzeForDuplicates(platform, swapped(last.moduleIds, i), config)
         .duplicatePackageErrors # last.result.duplicatePackageErrors

\* C29: in a report a package name is in at most one duplicate error, an
\* error has at least two versions, lists no version twice, and its versions
\* are the distinct versions observed for the name in the analysed modules.
C29_OneEntryPerPackage ==
  analysed =>
    \A i \in 1..Len(last.result.duplicatePackageErrors) :
      LET err == last.result.duplicatePackageErrors[i]
      IN  /\ \A j \in 1..Len(last.result.duplicatePackageErrors) :
               last.result.duplicatePackageErrors[j].packageName = err.packageName => j = i
          /\ Len(err.versions) >= 2
          /\ \A a \in 1..Len(err.versions) : \A b \in 1..Len(err.versions) :
               err.versions[a] = err.versions[b] => a = b
          /\ Range(err.versions) = observedVersions(last.moduleIds, err.packageName)

\* pkgX at /a/node_modules/pkgX (1.0.0) and /node_modules/pkgX (2.0.0), no
\* exceptions: one error, for pkgX, with both versions
C29_Witness ==
  /\ analysed
  /\ config.exceptions = [n \in {} |-> 0]
  /\ last.moduleIds = << HostId(platform, DirX1 \o <<"index.js">>),
                         HostId(platform, DirX2 \o <<"index.js">>),
                         HostId(platform, DirX1 \o <<"index.js">>) >>
  /\ Len(last.result.duplicatePackageErrors) = 1
  /\ last.result.duplicatePackageErrors[1].packageName = "pkgX"
  /\ last.result.duplicatePackageErrors[1].versions = <<"1.0.0", "2.0.0">>

\* the module ids that lie under node_modules and have an owning manifest
RECURSIVE dependencyIds(_)
dependencyIds(moduleIds) ==
  IF moduleIds = <<>> THEN <<>>
  ELSE (IF /\ includesNodeModules(Head(moduleIds))
           /\ getPackageJsonForPath(platform, Head(moduleIds)).found
        THEN <<Head(moduleIds)>> ELSE <<>>) \o dependencyIds(Tail(moduleIds))

\* C30: module ids outside node_modules and module ids with no owning
\* manifest contribute nothing: the result of an analysis, and the error
\* generateBundle raises, are those of the same module ids without them.
C30_OnlyDependenciesCount ==
  analysed =>
    /\ last.result = analyzeForDuplicates(platform, dependencyIds(last.moduleIds), config)
    /\ last.op = "generateBundle" =>
         last.errors = bundleErrors(
           analyzeForDuplicates(platform, dependencyIds(last.moduleIds), config))
    /\ \A name \in DOMAIN config.exceptions :
         name \notin last.result.unusedExceptions =>
           \E i \in 1..Len(last.moduleIds) :
             /\ includesNodeModules(last.moduleIds[i])
             /\ getPackageJsonForPath(platform, last.moduleIds[i]).name = name

\* the application's own module and a file with no manifest analysed under
\* an exception for the application's package, which stays unused
C30_Witness ==
  /\ last.op = "generateBundle"
  /\ config.exceptions = ("app" :> 2)
  /\ HostId(platform, DirApp \o <<"src", "main.js">>) \in Range(last.moduleIds)
  /\ HostId(platform, <<"tmp", nm, "orphan", "x.js">>) \in Range(last.moduleIds)
  /\ Len(dependencyIds(last.moduleIds)) = 1
  /\ last.result.unusedExceptions = {"app"}

\* d is the directory of segs or one above it
isAbove(d, segs) == Len(d) < Len(segs) /\ SubSeq(segs, 1, Len(d)) = d

\* the manifests above a path that are not dummies: they parse to an object
\* with a name or a version, or they do not parse to an object at all
notSkipped(layout, segs) ==
  { d \in DOMAIN layout :
      /\ isAbove(d, segs)
      /\ ~(layout[d].content = "object" /\ layout[d].name = Undef
                                        /\ layout[d].version = Undef) }

\* the nearest of a non-empty set of directories above one path
nearest(dirs) == CHOOSE d \in dirs : \A e \in dirs : Len(e) <= Len(d)

\* a finished call of getPackageJsonForPath
looked == last.op = "lookup" /\ last.done

\* C31: getPackageJsonForPath returns the nearest manifest above the path
\* that declares a name or a version: manifests with neither are skipped,
\* each search going on from the directory above the skipped one, and a
\* manifest with only one of the two fields is the owner.
C31_NearestDeclaringManifest ==
  looked =>
    LET layout == Layouts[last.layout]
        declaring == { d \in notSkipped(layout, last.segs) : layout[d].content = "object" }
    IN  /\ (notSkipped(layout, last.segs) # {} /\
            nearest(notSkipped(layout, last.segs)) \in declaring) =>
              LET d == nearest(declaring)
              IN  last.result = [found |-> TRUE, name |-> layout[d].name,
                                 version |-> layout[d].version,
                                 rootPath |-> NativeDir(platform, d)]
        /\ last.result.found =>
             /\ declaring # {}
             /\ last.result.rootPath = NativeDir(platform, nearest(declaring))
        /\ \A k \in 1..(Len(last.read) - 1) :
             /\ isPlaceholder(readManifestIn(layout, platform, last.read[k]))
             /\ last.read[k + 1] =
                  findRootIn(layout, platform, parentDir(platform, last.read[k])).root
        /\ last.layout = "installed" /\ last.path \in Files(platform) =>
             last.result = packageInfoOf[platform][last.path]

\* two dummies climbed over to a manifest that has a version but no name
C31_Witness ==
  /\ looked
  /\ last.layout = "chain"
  /\ last.segs = DirN3 \o <<"index.js">>
  /\ Len(last.read) = 3
  /\ last.result.found
  /\ last.result.name = Undef
  /\ last.result.version = "3.0.0"
  /\ last.result.rootPath = NativeDir(platform, DirN1)

\* C33: every call of getPackageJsonForPath returns, whatever the path and
\* the manifests: under a chain of dummies, and under a dummy in the top
\* directory, whose parent is the top directory again.
C33_SearchTerminates ==
  [](last.op = "lookup" => <>looked)

\* the search from under a dummy in the top directory has returned: it read
\* the top directory's manifest again and again and found nothing
C33_Witness ==
  /\ looked
  /\ last.layout = "top"
  /\ last.segs = DirN3 \o <<"index.js">>
  /\ Len(last.read) > 2
  /\ last.read[2] = drive(platform)
  /\ last.read[3] = drive(platform)
  /\ ~last.result.found

\* what keeps a file from having an owner: no manifest above it ("missing"),
\* or the nearest manifest above it cannot be read or parsed
faultOf(segs) ==
  LET above == {d \in DOMAIN Manifests : isAbove(d, segs)}
  IN  IF above = {} THEN "missing"
      ELSE IF Manifests[nearest(above)].content \in {"unreadable", "unparseable"}
        THEN Manifests[nearest(above)].content
      ELSE "none"

faultyIds == {HostId(platform, segs) : segs \in {f \in FileSegs : faultOf(f) # "none"}}

\* the module ids that are not under a missing or broken manifest
RECURSIVE soundIds(_)
soundIds(moduleIds) ==
  IF moduleIds = <<>> THEN <<>>
  ELSE (IF Head(moduleIds) \in faultyIds THEN <<>> ELSE <<Head(moduleIds)>>)
         \o soundIds(Tail(moduleIds))

\* C32: a lookup under a missing, an unreadable or an unparseable manifest
\* gives not-found, also when a package's manifest lies above the broken
\* one; resolveId then returns null without an error and leaves the registry
\* as it was, and an analysis is that of the other module ids.
C32_LookupFailureIsNotFound ==
  /\ [](/\ (last.op = "resolveId" /\ last.resolved \in faultyIds) =>
             /\ last.packageInfo = NotFound
             /\ last.returned = NoPath
             /\ raised(last) = <<>>
        /\ analysed =>
             /\ last.result = analyzeForDuplicates(platform, soundIds(last.moduleIds), config)
             /\ raised(last) = bundleErrors(
                  analyzeForDuplicates(platform, soundIds(last.moduleIds), config)))
  /\ [][(last'.op = "resolveId" /\ last' # last /\ last'.resolved \in faultyIds)
          => doppelgangerMap' = doppelgangerMap]_vars

\* pkgY 2.0.0 is in the registry, and a file under the unparseable manifest
\* inside that package has been resolved: no owner, nothing returned
C32_Witness ==
  /\ last.op = "resolveId"
  /\ last.resolved = HostId(platform, DirY3v \o <<"index.js">>)
  /\ last.packageInfo = NotFound
  /\ last.returned = NoPath
  /\ DOMAIN doppelgangerMap = {<<"pkgY", "@", "2.0.0">>}
  /\ HostId(platform, DirLock \o <<"index.js">>) \in resolvedModuleIds
  /\ HostId(platform, <<"tmp", nm, "orphan", "x.js">>) \in resolvedModuleIds

\* the lines about duplicate packages in the message of a generateBundle
linesOf(errors) ==
  IF errors # <<>> /\ errors[1][1].part = "duplicates" THEN errors[1][1].details ELSE <<>>

\* the message generateBundle gives for a sequence of module ids
messageFor(moduleIds) ==
  bundleErrors(analyzeForDuplicates(platform, moduleIds, config))

\* the versions of a package in the order in which the module ids first
\* show them
RECURSIVE firstSeen(_, _, _)
firstSeen(moduleIds, name, seen) ==
  IF moduleIds = <<>> THEN seen
  ELSE LET info == getPackageJsonForPath(platform, Head(moduleIds))
       IN  firstSeen(Tail(moduleIds), name,
             IF /\ includesNodeModules(Head(moduleIds))
                /\ info.found
                /\ info.name = name
                /\ \A k \in 1..Len(seen) : seen[k] # info.version
             THEN Append(seen, info.version) ELSE seen)

\* C34 as stated: bundles with the same modules in a different order render
\* every duplicate package with the same versions in the same order.
C34_SameVersionOrder ==
  (analysed /\ last.op = "generateBundle") =>
    \A i \in 1..(Len(last.moduleIds) - 1) :
      \A a \in Range(linesOf(last.errors)) :
        \A b \in Range(linesOf(messageFor(swapped(last.moduleIds, i)))) :
          a.packageName = b.packageName => a.versionList = b.versionList

\* C34, amended: the line of a duplicate package lists its versions in the
\* order in which the bundle's modules first show them, and bundles with the
\* same modules in a different order list the same versions for it.
C34_VersionsInFirstSeenOrder ==
  (analysed /\ last.op = "generateBundle") =>
    /\ \A a \in Range(linesOf(last.errors)) :
         a.versionList = firstSeen(last.moduleIds, a.packageName, <<>>)
    /\ \A i \in 1..(Len(last.moduleIds) - 1) :
         \A a \in Range(linesOf(last.errors)) :
           \A b \in Range(linesOf(messageFor(swapped(last.moduleIds, i)))) :
             a.packageName = b.packageName =>
               Range(a.versionList) = Range(b.versionList)

\* the bundle shows pkgX 2.0.0 before pkgX 1.0.0, and so does the message
C34_Witness ==
  /\ last.op = "generateBundle"
  /\ last.moduleIds = << HostId(platform, DirX2 \o <<"index.js">>),
                         HostId(platform, DirX1 \o <<"index.js">>) >>
  /\ Len(linesOf(last.errors)) = 1
  /\ linesOf(last.errors)[1].packageName = "pkgX"
  /\ linesOf(last.errors)[1].versionList = <<"2.0.0", "1.0.0">>

\* C35: the canonical root of a registry entry is one of its observed
\* roots, so an entry has at least one observed root and buildEnd never
\* reports a negative number of eliminated roots.
C35_CanonicalIsObserved ==
  /\ \A k \in DOMAIN doppelgangerMap :
       /\ doppelgangerMap[k].resolveToPath \in doppelgangerMap[k].paths
       /\ Cardinality(doppelgangerMap[k].paths) >= 1
       /\ Cardinality(doppelgangerMap[k].paths) - 1 >= 0
  /\ last.op = "buildEnd" => \A line \in last.lines : line.eliminated >= 0

\* buildEnd has reported one eliminated root for an entry with two roots
C35_Witness ==
  /\ last.op = "buildEnd"
  /\ \E line \in last.lines :
       /\ line.eliminated = 1
       /\ Cardinality(doppelgangerMap[line.packageId].paths) = 2
       /\ doppelgangerMap[line.packageId].resolveToPath
            \in doppelgangerMap[line.packageId].paths

\* the call that returned last had overtaken an earlier one, which is still
\* waiting, and was the first to return for its package
overtaker ==
  /\ last.op = "resolveId"
  /\ last.overtook
  /\ pending # <<>>
  /\ last.packageInfo.found
  /\ firstRoot[packageIdOf(last.packageInfo)] = last.packageInfo.rootPath
  /\ last.returned = NoPath

\* C36: the canonical root of a package is the root of the resolution that
\* completed first, whatever the order of the calls: a call that overtakes
\* an earlier one makes its root canonical, and the earlier call, when its
\* resolution arrives with another root of the package, is redirected to it.
C36_CompletionOrderDecides ==
  /\ [](config.deduplicateDoppelgangers =>
          /\ DOMAIN doppelgangerMap = DOMAIN firstRoot
          /\ \A k \in DOMAIN doppelgangerMap :
               doppelgangerMap[k].resolveToPath = firstRoot[k]
          /\ overtaker =>
               doppelgangerMap[packageIdOf(last.packageInfo)].resolveToPath
                 = last.packageInfo.rootPath)
  /\ [][(/\ config.deduplicateDoppelgangers
         /\ overtaker
         /\ pending' = Tail(pending)
         /\ last'.op = "resolveId" /\ last'.hostCalled /\ ~last'.overtook
         /\ last'.packageInfo.found
         /\ packageIdOf(last'.packageInfo) = packageIdOf(last.packageInfo)
         /\ last'.packageInfo.rootPath # last.packageInfo.rootPath)
        => /\ last'.returned = redirectedIdOf(last'.resolved, last'.packageInfo.rootPath,
                                              last.packageInfo.rootPath)
           /\ doppelgangerMap'[packageIdOf(last.packageInfo)].resolveToPath
                = last.packageInfo.rootPath]_vars

\* the second call returned first, with dep2's copy of pkgY, which is now
\* canonical, while the first call still waits for its resolution
C36_Witness ==
  /\ config.deduplicateDoppelgangers
  /\ overtaker
  /\ Len(pending) = 1
  /\ last.packageInfo.rootPath = NativeDir(platform, DirY2)
  /\ doppelgangerMap[<<"pkgY", "@", "1.0.0">>].resolveToPath = NativeDir(platform, DirY2)

\* the roots of a package that resolveId has redirected since the plugin
\* was constructed
redirectedRoots(k) == {x \in redirected : x[1] = k}

\* C37: buildEnd and generateBundle leave the registry as it is: after
\* them the canonical roots chosen before still decide the redirects, and a
\* later buildEnd reports again every root eliminated since the plugin was
\* constructed.
C37_RegistrySurvivesBuild ==
  /\ [](/\ (last.op = "buildEnd" /\ config.deduplicateDoppelgangers) =>
             last.lines = { [packageId |-> k,
                             eliminated |-> Cardinality(redirectedRoots(k))] :
                            k \in {j \in DOMAIN firstRoot : redirectedRoots(j) # {}} }
        /\ (last.op = "resolveId" /\ last.returned # NoPath) =>
             last.returned = redirectedIdOf(last.resolved, last.packageInfo.rootPath,
                                            firstRoot[packageIdOf(last.packageInfo)]))
  /\ [][(last'.op \in {"buildEnd", "generateBundle"} /\ last' # last)
          => doppelgangerMap' = doppelgangerMap]_vars
  /\ [][(/\ last.op \in {"buildEnd", "generateBundle"}
         /\ config.deduplicateDoppelgangers
         /\ last'.op = "resolveId" /\ last'.hostCalled
         /\ last'.packageInfo.found
         /\ packageIdOf(last'.packageInfo) \in DOMAIN doppelgangerMap
         /\ doppelgangerMap[packageIdOf(last'.packageInfo)].resolveToPath
              # last'.packageInfo.rootPath)
        => last'.returned =
             redirectedIdOf(last'.resolved, last'.packageInfo.rootPath,
                            doppelgangerMap[packageIdOf(last'.packageInfo)].resolveToPath)]_vars

\* buildEnd reports the root eliminated before, and a file that had been
\* resolved before is waiting to be resolved again
C37_Witness ==
  /\ last.op = "buildEnd"
  /\ last.lines = { [packageId |-> <<"pkgY", "@", "1.0.0">>, eliminated |-> 1] }
  /\ doppelgangerMap[<<"pkgY", "@", "1.0.0">>].resolveToPath = NativeDir(platform, DirY1)
  /\ HostId(platform, DirY2 \o <<"index.js">>) \in DOMAIN firstFinal
  /\ pending # <<>>

====
